---- MODULE Spec2Model ----
(***************************************************************************)
(* Transaction normalization and deduplication pipeline of the AI          *)
(* transaction bot: field validator, OCR adapter, LLM adapter, duplicate   *)
(* resolver, DynamoDB store and the orchestrating pipeline, together with  *)
(* the upload route that feeds it.                                         *)
(*                                                                         *)
(* Conventions.  A JavaScript value is a record with fields                *)
(*   k   : its typeof class ("undefined","null","boolean","number","nan",  *)
(*         "string","object"); "nan" is the number NaN                     *)
(*   s   : for a string, its trimmed text                                  *)
(*   len : for a string, the length of the trimmed text                    *)
(*   ws  : for a string, whether it carries leading/trailing whitespace    *)
(*   num : for a string, whether parseFloat yields a number                *)
(*   w,f : the numeric value w + f/100 (f in 0..99), for numbers, booleans *)
(*         (0/1) and numeric strings                                       *)
(*   dt  : for a string, "iso" when it matches ^\d{4}-\d{2}-\d{2}$, "text" *)
(*         when Date can parse it otherwise, "none" when Date cannot       *)
(*   day : for a parseable date string, the UTC day of its instant,        *)
(*         counted in days from the validation instant (0 = today)         *)
(* Awaited external calls are the interleaving points of a request: the    *)
(* synchronous code between two awaits is one action.                      *)
(***************************************************************************)
EXTENDS Integers, Sequences, FiniteSets, TLC

VARIABLES
    req,        \* per slot: the request running in it (locals of the handler)
    store,      \* DynamoDB table: sequence of items in insertion order
    files,      \* temporary image files present in uploads/
    clock,      \* Date.now(), read by createTransaction; it advances between reads
    apiKey,     \* whether process.env.OPENAI_API_KEY is set
    filler,     \* items of the table that belong to unrelated users/merchants
    leapWindow, \* whether the calendar year starting now has 366 days
    client,     \* a direct caller of the store functions: its last call and
                \* the records createTransaction returned to it
    fn          \* the last call of a validator or of the LLM adapter made on
                \* its own: its arguments and what it returned or threw

vars == <<req, store, files, clock, apiKey, filler, leapWindow, client, fn>>

-----------------------------------------------------------------------------
(* Bounds of the model *)

\* requests the model runs, each in its own slot, concurrently
NumRequests == 2

-----------------------------------------------------------------------------
(* JavaScript values *)

JSV(k, s, len, ws, num, w, f, dt, day) ==
    [k |-> k, s |-> s, len |-> len, ws |-> ws, num |-> num, w |-> w, f |-> f,
     dt |-> dt, day |-> day]

Undef == JSV("undefined", "", 0, FALSE, FALSE, 0, 0, "none", 0)

Null == JSV("null", "", 0, FALSE, FALSE, 0, 0, "none", 0)

Bool(b) == JSV("boolean", "", 0, FALSE, FALSE, IF b THEN 1 ELSE 0, 0, "none", 0)

Num(w, f) == JSV("number", "", 0, FALSE, FALSE, w, f, "none", 0)

NaN == JSV("nan", "", 0, FALSE, FALSE, 0, 0, "none", 0)

Obj == JSV("object", "", 0, FALSE, FALSE, 0, 0, "none", 0)

Str(s, len) == JSV("string", s, len, FALSE, FALSE, 0, 0, "none", 0)

Padded(v) == [v EXCEPT !.ws = TRUE]

NumStr(s, len, w, f) == JSV("string", s, len, FALSE, TRUE, w, f, "none", 0)

\* the string Date.prototype.toISOString().split('T')[0] yields for a day
IsoDate(day) == JSV("string", "YYYY-MM-DD", 10, FALSE, FALSE, 0, 0, "iso", day)

\* a date written in another form Date can parse, e.g. "Jan 15 2024"
TextDate(s, len, day) == JSV("string", s, len, FALSE, FALSE, 0, 0, "text", day)

EmptyStr == Str("", 0)

IsString(v) == v.k = "string"

\* ToBoolean
Truthy(v) ==
    CASE v.k \in {"undefined", "null", "nan"} -> FALSE
      [] v.k = "boolean" -> v.w = 1
      [] v.k = "number" -> ~(v.w = 0 /\ v.f = 0)
      [] v.k = "string" -> v.len > 0 \/ v.ws
      [] OTHER -> TRUE

\* a || b
Or(a, b) == IF Truthy(a) THEN a ELSE b

\* String.prototype.trim
Trim(v) == [v EXCEPT !.ws = FALSE]

\* String.prototype.toLowerCase on the texts the model uses
LowerText(s) ==
    CASE s = "EXPENSE" -> "expense"
      [] s = "Income" -> "income"
      [] s = "USD" -> "usd"
      [] OTHER -> s

toLowerCase(v) == [v EXCEPT !.s = LowerText(v.s)]

\* String.prototype.toUpperCase on the texts the model uses
UpperText(s) ==
    CASE s = "usd" -> "USD"
      [] s = "eur" -> "EUR"
      [] s = "us1" -> "US1"
      [] s = "expense" -> "EXPENSE"
      [] s = "income" -> "INCOME"
      [] OTHER -> s

toUpperCase(v) == [v EXCEPT !.s = UpperText(v.s)]

\* /^[A-Z]{3}$/.test on the texts the model uses
IsUpperAlpha3(v) == v.len = 3 /\ ~v.ws /\ v.s \in {"USD", "EUR", "GBP"}

\* String(x)
JSString(v) ==
    CASE v.k = "string" -> v
      [] v.k = "boolean" -> Str(IF v.w = 1 THEN "true" ELSE "false", IF v.w = 1 THEN 4 ELSE 5)
      [] v.k = "number" -> NumStr("number", 1, v.w, v.f)
      [] v.k = "nan" -> Str("NaN", 3)
      [] v.k = "object" -> Str("[object Object]", 15)
      [] v.k = "null" -> Str("null", 4)
      [] OTHER -> Str("undefined", 9)

\* parseFloat
parseFloat(v) ==
    IF v.k = "string"
    THEN (IF v.num THEN Num(v.w, v.f) ELSE NaN)
    ELSE IF v.k = "number" THEN v ELSE NaN

\* ToNumber, as the relational operators and isNaN apply it
ToNumber(v) ==
    CASE v.k = "number" -> v
      [] v.k = "boolean" -> Num(v.w, 0)
      [] v.k = "null" -> Num(0, 0)
      [] v.k = "string" -> (IF v.num THEN Num(v.w, v.f)
                            ELSE IF v.len = 0 THEN Num(0, 0) ELSE NaN)
      [] OTHER -> NaN

isNaN(v) == ToNumber(v).k = "nan"

\* x <= 0 and x > m on numbers w + f/100
LeqZero(n) == n.w < 0 \/ (n.w = 0 /\ n.f = 0)

\* a faulty variant: the bound itself counts as larger
GeqInt(n, m) == n.w >= m

GtInt(n, m) == n.w > m \/ (n.w = m /\ n.f > 0)

-----------------------------------------------------------------------------
(* Errors: kind is the class, msg the fixed part of the message, detail    *)
(* the interpolated part, field the ValidationError's field, list the      *)
(* interpolated list of names (the missing fields of an LLM response).     *)

Err(kind, msg, field, detail) ==
    [kind |-> kind, msg |-> msg, field |-> field, detail |-> detail, list |-> <<>>]

NoError == Err("none", "", "", "")

ValidationError(msg, field) == Err("ValidationError", msg, field, "")

Ok(v) == [ok |-> TRUE, v |-> v, err |-> NoError]

Throw(e) == [ok |-> FALSE, v |-> Undef, err |-> e]

-----------------------------------------------------------------------------
(* Field validator (utils/validation.js) *)

validateAmount(amount) ==
    IF amount.k \in {"undefined", "null"}
    THEN Throw(ValidationError("Amount is required", "amount"))
    ELSE LET numAmount == IF IsString(amount) THEN parseFloat(amount) ELSE amount
         IN IF isNaN(numAmount)
            THEN Throw(ValidationError("Amount must be a valid number", "amount"))
            ELSE IF LeqZero(ToNumber(numAmount))
            THEN Throw(ValidationError("Amount must be greater than 0", "amount"))
            ELSE IF GtInt(ToNumber(numAmount), 1000000000)
            THEN Throw(ValidationError("Amount is too large (max: 1,000,000,000)", "amount"))
            ELSE Ok(numAmount)

\* new Date(x): whether the date is valid, and its UTC day
DateValid(v) ==
    CASE v.k = "string" -> v.dt # "none"
      [] v.k \in {"number", "boolean"} -> TRUE
      [] OTHER -> FALSE

\* a number or boolean is taken as milliseconds since 1970: far in the past
DateDay(v) == IF v.k = "string" THEN v.day ELSE -20000

\* days from now to the same calendar day next year (setFullYear(+1))
OneYearFromNow(leap) == IF leap THEN 366 ELSE 365

validateDate(dateString, leap) ==
    IF ~Truthy(dateString)
    THEN Throw(ValidationError("Date is required", "date"))
    ELSE IF ~DateValid(dateString)
    THEN Throw(ValidationError("Invalid date format. Use ISO 8601 format (YYYY-MM-DD)", "date"))
    ELSE IF DateDay(dateString) > OneYearFromNow(leap)
    THEN Throw(ValidationError("Date cannot be more than 1 year in the future", "date"))
    ELSE Ok(IsoDate(DateDay(dateString)))

validateTransactionType(type) ==
    IF ~Truthy(type)
    THEN Throw(ValidationError("Transaction type is required", "type"))
    ELSE IF ~IsString(type)
    THEN Throw(Err("TypeError", "type.toLowerCase is not a function", "", ""))
    ELSE LET lowerType == toLowerCase(type)
         IN IF ~(lowerType.s \in {"income", "expense"} /\ ~lowerType.ws)
            THEN Throw(Err("ValidationError",
                           "Transaction type must be either 'income' or 'expense'. Received: ",
                           "type", type.s))
            ELSE Ok(lowerType)

validateMerchant(merchant) ==
    IF ~Truthy(merchant) \/ ~IsString(merchant)
    THEN Throw(ValidationError("Merchant name is required and must be a string", "merchant"))
    ELSE LET trimmed == Trim(merchant)
         IN IF trimmed.len = 0
            THEN Throw(ValidationError("Merchant name cannot be empty", "merchant"))
            ELSE IF trimmed.len > 200
            THEN Throw(ValidationError("Merchant name is too long (max 200 characters)", "merchant"))
            ELSE Ok(trimmed)

validateCategory(category) ==
    IF ~Truthy(category) \/ ~IsString(category)
    THEN Throw(ValidationError("Category is required and must be a string", "category"))
    ELSE LET trimmed == Trim(category)
         IN IF trimmed.len = 0
            THEN Throw(ValidationError("Category cannot be empty", "category"))
            ELSE IF trimmed.len > 100
            THEN Throw(ValidationError("Category is too long (max 100 characters)", "category"))
            ELSE Ok(trimmed)

validateCurrency(currency) ==
    IF ~Truthy(currency) \/ ~IsString(currency)
    THEN Ok(Str("USD", 3))
    ELSE LET upperCurrency == Trim(toUpperCase(currency))
         IN IF upperCurrency.len # 3
            THEN Throw(ValidationError("Currency must be a 3-letter code (e.g., USD, EUR)", "currency"))
            ELSE IF ~IsUpperAlpha3(upperCurrency)
            THEN Throw(ValidationError("Currency code must contain only letters", "currency"))
            ELSE Ok(upperCurrency)

\* the catch of validateTransaction: a ValidationError passes, anything else is wrapped
WrapValidation(e) ==
    IF e.kind = "ValidationError" THEN e
    ELSE Err("ValidationError", "Validation failed: ", "", e.msg)

validateTransaction(transaction, leap) ==
    LET amount == validateAmount(transaction.amount)
        date == validateDate(transaction.date, leap)
        type == validateTransactionType(transaction.type)
        merchant == validateMerchant(transaction.merchant)
        category == validateCategory(transaction.category)
        currency == validateCurrency(Or(transaction.currency, Str("USD", 3)))
        description == IF Truthy(transaction.description)
                       THEN Trim(JSString(transaction.description)) ELSE EmptyStr
        validated == [amount |-> amount.v, date |-> date.v, type |-> type.v,
                      merchant |-> merchant.v, category |-> category.v,
                      currency |-> currency.v, description |-> description,
                      source |-> Or(transaction.source, Str("manual", 6)),
                      rawText |-> Or(transaction.rawText, EmptyStr)]
    IN IF ~amount.ok THEN Throw(WrapValidation(amount.err))
       ELSE IF ~date.ok THEN Throw(WrapValidation(date.err))
       ELSE IF ~type.ok THEN Throw(WrapValidation(type.err))
       ELSE IF ~merchant.ok THEN Throw(WrapValidation(merchant.err))
       ELSE IF ~category.ok THEN Throw(WrapValidation(category.err))
       ELSE IF ~currency.ok THEN Throw(WrapValidation(currency.err))
       ELSE IF description.len > 500
       THEN Throw(ValidationError("Description is too long (max 500 characters)", "description"))
       ELSE Ok(validated)

\* a faulty variant: the id is returned as it was given
validateUserIdAsGiven(userId) ==
    IF ~Truthy(userId) \/ ~IsString(userId)
    THEN Throw(ValidationError("User ID is required and must be a string", "userId"))
    ELSE IF Trim(userId).len = 0
    THEN Throw(ValidationError("User ID cannot be empty", "userId"))
    ELSE Ok(userId)

validateUserId(userId) ==
    IF ~Truthy(userId) \/ ~IsString(userId)
    THEN Throw(ValidationError("User ID is required and must be a string", "userId"))
    ELSE LET trimmed == Trim(userId)
         IN IF trimmed.len = 0
            THEN Throw(ValidationError("User ID cannot be empty", "userId"))
            ELSE IF trimmed.len > 100
            THEN Throw(ValidationError("User ID is too long (max 100 characters)", "userId"))
            ELSE Ok(trimmed)

-----------------------------------------------------------------------------
(* LLM adapter (services/llmservices.js)                                   *)
(* A reply of the completion service is a record                           *)
(*   t        : "content" (the call resolved) or "error" (it rejected)     *)
(*   present  : choices[0].message.content is a non-empty string           *)
(*   fence    : "none", "plain" (``` ... ```) or "json" (```json ... ```)  *)
(*   valid    : the text inside the wrapping is valid JSON                 *)
(*   data     : the object that JSON denotes                               *)
(*   response : the rejection carries error.response                       *)
(*   api      : the rejection is an OpenAI.APIError                        *)
(*   status   : the HTTP status of the rejection                           *)

LLMError(msg, detail) == Err("LLMError", msg, "", detail)

\* a faulty variant: the API key is not looked at
LLMPrecheckText(text, key) ==
    IF ~Truthy(text) \/ ~IsString(text) \/ Trim(text).len = 0
    THEN Throw(LLMError("Text input is required and cannot be empty", ""))
    ELSE Ok(text)

\* lines 61-69: what is decided before the completion request is sent
LLMPrecheck(text, key) ==
    IF ~Truthy(text) \/ ~IsString(text) \/ Trim(text).len = 0
    THEN Throw(LLMError("Text input is required and cannot be empty", ""))
    ELSE IF ~key
    THEN Throw(LLMError("OpenAI API key is not configured. Please set OPENAI_API_KEY in your .env file.", ""))
    ELSE Ok(text)

\* line 104: responseContent.replace(/\n?/g, '').replace(/```\n?/g, '').trim()
\* removes the line breaks, then every ```; a language tag after the opening
\* fence is left in front of the JSON text
CleanJsonParses(reply) == reply.valid /\ reply.fence # "json"

RequiredFields == <<"amount", "date", "merchant", "category", "type">>

\* a faulty variant: a key that is null counts as given
IsMissingUndefined(v) == v.k = "undefined"

IsMissing(v) == v.k \in {"undefined", "null"}

\* lines 114-115
MissingFields(d) ==
    SelectSeq(RequiredFields, LAMBDA field : IsMissing(d[field]))

\* lines 123-143: coercions and defaults applied to the parsed object
PostProcess(d) ==
    LET amount == IF IsString(d.amount) THEN parseFloat(d.amount) ELSE d.amount
        date == IF Truthy(d.date) /\ ~(IsString(d.date) /\ d.date.dt = "iso" /\ ~d.date.ws)
                THEN (IF DateValid(d.date) THEN IsoDate(DateDay(d.date)) ELSE IsoDate(0))
                ELSE d.date
    IN [d EXCEPT !.amount = amount, !.date = date,
                 !.currency = Or(d.currency, Str("USD", 3)),
                 !.description = Or(d.description, EmptyStr)]

\* lines 147-191: the catch of extractTransactionFromText on a rejected call
LLMCallError(reply) ==
    IF reply.response
    THEN CASE reply.status = 401 -> LLMError("OpenAI API key is invalid. Please check your OPENAI_API_KEY in .env file.", "")
           [] reply.status = 429 -> LLMError("OpenAI API rate limit exceeded. Please try again later.", "")
           [] reply.status = 500 -> LLMError("OpenAI API server error. Please try again later.", "")
           [] reply.status = 503 -> LLMError("OpenAI API service is temporarily unavailable. Please try again later.", "")
           [] OTHER -> LLMError("OpenAI API error: ", "status")
    ELSE IF reply.api
    THEN CASE reply.status = 401 -> LLMError("OpenAI API key is invalid", "")
           [] reply.status = 429 -> LLMError("OpenAI API rate limit exceeded", "")
           [] OTHER -> LLMError("OpenAI API error: ", "status")
    ELSE LLMError("Failed to extract transaction data: ", "cause")

\* lines 92-146: what extractTransactionFromText makes of the reply
LLMResult(reply) ==
    IF reply.t = "error" THEN Throw(LLMCallError(reply))
    ELSE IF ~reply.present THEN Throw(LLMError("Empty response from OpenAI", ""))
    ELSE IF ~CleanJsonParses(reply)
    THEN Throw(LLMError("Failed to parse JSON response from OpenAI: ", "parseError"))
    ELSE IF Len(MissingFields(reply.data)) > 0
    THEN Throw([LLMError("Missing required fields in LLM response: ", "")
                  EXCEPT !.list = MissingFields(reply.data)])
    ELSE Ok(PostProcess(reply.data))

\* lines 59-192: extractTransactionFromText(text) with process.env's key and
\* the reply the completion service gives if it is asked: the number of
\* completion requests sent, and what is returned or thrown
extractTransactionFromText(text, key, reply) ==
    LET pre == LLMPrecheck(text, key)
    IN IF ~pre.ok THEN [requests |-> 0, result |-> Throw(pre.err)]
       ELSE [requests |-> 1, result |-> LLMResult(reply)]

-----------------------------------------------------------------------------
(* OCR adapter (services/ocrServices.js)                                   *)
(* A reply of Textract is [t, code, blocks]: t = "blocks" with the Blocks  *)
(* of the response, or t = "error" with the error's code.                  *)

OCRError(msg, detail) == Err("OCRError", msg, "", detail)

maxSize == 10 * 1024 * 1024

\* a faulty variant: a file of exactly 10 MB is rejected as well
OcrPrecheckImageAtLimit(imagePath, exists, size) ==
    IF imagePath = 0
    THEN Throw(OCRError("Image path is required and must be a string", ""))
    ELSE IF ~exists
    THEN Throw(OCRError("Image file not found: ", "imagePath"))
    ELSE IF size >= maxSize
    THEN Throw(OCRError("Image file is too large. Maximum size is 10 MB. Current size: ", "size"))
    ELSE Ok(Undef)

\* extractTextFromImage lines 19-37: before Textract is called
OcrPrecheckImage(imagePath, exists, size) ==
    IF imagePath = 0
    THEN Throw(OCRError("Image path is required and must be a string", ""))
    ELSE IF ~exists
    THEN Throw(OCRError("Image file not found: ", "imagePath"))
    ELSE IF size > maxSize
    THEN Throw(OCRError("Image file is too large. Maximum size is 10 MB. Current size: ", "size"))
    ELSE Ok(Undef)

\* extractTextFromBuffer lines 115-124
OcrPrecheckBuffer(isBuffer, size) ==
    IF ~isBuffer
    THEN Throw(OCRError("Image buffer is required and must be a Buffer", ""))
    ELSE IF size > maxSize
    THEN Throw(OCRError("Image buffer is too large. Maximum size is 10 MB. Current size: ", "size"))
    ELSE Ok(Undef)

\* Blocks filtered to the LINE blocks with non-blank Text, joined by "\n":
\* the text of the first line stands for the joined text
JoinLines(blocks) ==
    LET textBlocks == SelectSeq(blocks, LAMBDA b :
                          b.BlockType = "LINE" /\ Truthy(b.Text) /\ Trim(b.Text).len > 0)
    IN IF Len(textBlocks) = 0 THEN EmptyStr
       ELSE [textBlocks[1].Text EXCEPT !.len = @ + Len(textBlocks) - 1]

\* extractTextFromImage lines 80-102
OcrCallErrorImage(code) ==
    CASE code = "InvalidParameterException" ->
             OCRError("Invalid image format. Supported formats: PNG, JPEG, PDF. Please ensure the file is a valid image.", "")
      [] code = "AccessDeniedException" ->
             OCRError("AWS Textract access denied. Check your AWS credentials and IAM permissions for Textract.", "")
      [] code = "InvalidS3ObjectException" ->
             OCRError("Invalid S3 object (if using S3). Check the file path and permissions.", "")
      [] code = "ProvisionedThroughputExceededException" ->
             OCRError("AWS Textract throughput limit exceeded. Please try again in a few moments.", "")
      [] code = "ThrottlingException" ->
             OCRError("AWS Textract request was throttled. Please try again later.", "")
      [] OTHER -> OCRError("OCR extraction failed: ", code)

\* extractTextFromBuffer lines 160-169
OcrCallErrorBuffer(code) ==
    CASE code = "InvalidParameterException" ->
             OCRError("Invalid image format. Supported formats: PNG, JPEG, PDF.", "")
      [] code = "AccessDeniedException" ->
             OCRError("AWS Textract access denied. Check your AWS credentials and IAM permissions.", "")
      [] OTHER -> OCRError("OCR extraction from buffer failed: ", code)

\* lines 49-70 (image) and 135-152 (buffer): what the adapter makes of the reply
OcrResult(reply, fromBuffer) ==
    IF reply.t = "error"
    THEN Throw(IF fromBuffer THEN OcrCallErrorBuffer(reply.code)
               ELSE OcrCallErrorImage(reply.code))
    ELSE LET extractedText == JoinLines(reply.blocks)
         IN IF ~Truthy(extractedText) \/ Trim(extractedText).len = 0
            THEN Throw(IF fromBuffer
                       THEN OCRError("No text could be extracted from the image buffer", "")
                       ELSE OCRError("No text could be extracted from the image. Please ensure the image contains readable text.", ""))
            ELSE Ok(Trim(extractedText))

-----------------------------------------------------------------------------
(* Transaction store (services/dynamodbService.js)                         *)

DatabaseError(msg, detail) == Err("DatabaseError", msg, "", detail)

\* null / no item
NoItem ==
    [userId |-> Undef, transactionId |-> 0, timestamp |-> 0, amount |-> Undef,
     currency |-> Undef, date |-> Undef, merchant |-> Undef, category |-> Undef,
     type |-> Undef, description |-> Undef, source |-> Undef, rawText |-> Undef,
     status |-> "", createdAt |-> 0, updatedAt |-> 0]

\* createTransaction lines 15-39: the item built before the put is sent
BuildItem(userId, transactionData, transactionId, timestamp) ==
    [userId |-> userId,
     transactionId |-> transactionId,
     timestamp |-> timestamp,
     amount |-> transactionData.amount,
     currency |-> Or(transactionData.currency, Str("USD", 3)),
     date |-> transactionData.date,
     merchant |-> transactionData.merchant,
     category |-> transactionData.category,
     type |-> transactionData.type,
     description |-> Or(transactionData.description, EmptyStr),
     source |-> Or(transactionData.source, Str("manual", 6)),
     rawText |-> Or(transactionData.rawText, EmptyStr),
     status |-> "confirmed",
     createdAt |-> timestamp,
     updatedAt |-> timestamp]

\* a faulty variant: a put that is dropped when the table holds a record of
\* the same user, merchant, date and amount
PutItemUnlessSimilar(table, item) ==
    IF \E i \in 1..Len(table) : /\ table[i].userId = item.userId
                                /\ table[i].merchant = item.merchant
                                /\ table[i].date = item.date
                                /\ table[i].amount = item.amount
    THEN table ELSE Append(table, item)

\* dynamoDB.put: an item with the same key is replaced, otherwise it is added
PutItem(table, item) ==
    IF \E i \in 1..Len(table) : table[i].userId = item.userId
                                /\ table[i].transactionId = item.transactionId
    THEN [i \in 1..Len(table) |->
            IF table[i].userId = item.userId /\ table[i].transactionId = item.transactionId
            THEN item ELSE table[i]]
    ELSE Append(table, item)

\* Math.abs(a - b) on numbers w + f/100
AbsDiff(a, b) ==
    LET hi == IF a.w > b.w \/ (a.w = b.w /\ a.f >= b.f) THEN a ELSE b
        lo == IF a.w > b.w \/ (a.w = b.w /\ a.f >= b.f) THEN b ELSE a
    IN IF hi.f >= lo.f THEN Num(hi.w - lo.w, hi.f - lo.f)
       ELSE Num(hi.w - lo.w - 1, hi.f - lo.f + 100)

\* lines 143-148: Math.abs(item.amount - amount) / amount <= 0.05, that is
\* 20 * |item.amount - amount| <= amount, that is (in whole cents)
\* |item.amount - amount| <= floor(amount / 20)
WithinTolerance(itemAmount, amount) ==
    LET e == ToNumber(itemAmount)
        c == ToNumber(amount)
        amountDifference == AbsDiff(e, c)
        twentieth == Num(c.w \div 20, 5 * (c.w % 20) + (c.f \div 20))
    IN /\ e.k = "number" /\ c.k = "number"
       /\ \/ amountDifference.w < twentieth.w
          \/ amountDifference.w = twentieth.w /\ amountDifference.f <= twentieth.f

\* query on merchant-date-index: the items of every user with that key
IndexQuery(table, merchant, date) ==
    SelectSeq(table, LAMBDA item : item.merchant = merchant /\ item.date = date)

\* a faulty variant: the filter does not look at the user
FilterSimilarOfAnyUser(items, userId, amount) ==
    SelectSeq(items, LAMBDA item : WithinTolerance(item.amount, amount))

\* checkForDuplicates lines 142-151: the client-side filter on the query result
FilterSimilar(items, userId, amount) ==
    SelectSeq(items, LAMBDA item :
        item.userId = userId /\ WithinTolerance(item.amount, amount))

\* checkForDuplicates lines 123-151 on a successful query
checkForDuplicates(table, userId, transactionData) ==
    FilterSimilar(IndexQuery(table, transactionData.merchant, transactionData.date),
                  userId, transactionData.amount)

\* a faulty variant: the scan follows every rejection of the query
UsesFallbackAlways(error) == TRUE

\* line 158: which rejections of the query start the scan fallback
UsesFallback(error) ==
    error.code = "ResourceNotFoundException" \/ error.index

\* line 189: Limit of the fallback scan
ScanLimit == 100

\* dynamoDB.scan with Limit: at most Limit items of the table are read, in the
\* table's own order, before the filter is applied.  The table holds n modelled
\* items and `others` unrelated ones; the positions of modelled items that a
\* scan can read are any set that fits the limit together with the others.
ScanReads(n, others, limit) ==
    LET read == IF n + others < limit THEN n + others ELSE limit
    IN {S \in SUBSET (1..n) : Cardinality(S) <= read /\ read - Cardinality(S) <= others}

Pick(table, S) ==
    LET idx == CHOOSE sq \in [1..Cardinality(S) -> S] :
                   \A i, j \in 1..Cardinality(S) : i < j => sq[i] < sq[j]
    IN [i \in 1..Cardinality(S) |-> table[idx[i]]]

\* checkForDuplicatesFallback lines 176-202 on a successful scan that read S
checkForDuplicatesFallback(table, S, userId, transactionData) ==
    LET scanned == SelectSeq(Pick(table, S), LAMBDA item :
                       /\ item.userId = userId
                       /\ item.merchant = transactionData.merchant
                       /\ item.date = transactionData.date)
    IN SelectSeq(scanned, LAMBDA item :
           WithinTolerance(item.amount, transactionData.amount))

\* the position of the item with that key, 0 if there is none
KeyIndex(table, userId, transactionId) ==
    IF \E i \in 1..Len(table) : table[i].userId = userId
                                /\ table[i].transactionId = transactionId
    THEN CHOOSE i \in 1..Len(table) : table[i].userId = userId
                                      /\ table[i].transactionId = transactionId
    ELSE 0

\* a faulty variant: the item is looked up by transactionId alone
getTransactionOfAnyUser(table, userId, transactionId) ==
    IF \E i \in 1..Len(table) : table[i].transactionId = transactionId
    THEN table[CHOOSE i \in 1..Len(table) : table[i].transactionId = transactionId]
    ELSE NoItem

\* getTransaction lines 67-77: dynamoDB.get by key, result.Item || null
getTransaction(table, userId, transactionId) ==
    IF KeyIndex(table, userId, transactionId) # 0
    THEN table[KeyIndex(table, userId, transactionId)]
    ELSE NoItem

\* items in descending order of the sort key transactionId
RECURSIVE ByTransactionIdDescending(_)
ByTransactionIdDescending(items) ==
    IF Len(items) = 0 THEN <<>>
    ELSE LET top == CHOOSE i \in 1..Len(items) :
                        \A j \in 1..Len(items) :
                            items[j].transactionId <= items[i].transactionId
         IN <<items[top]>> \o ByTransactionIdDescending(
                [j \in 1..(Len(items) - 1) |->
                    IF j < top THEN items[j] ELSE items[j + 1]])

\* line 92: limit = 100 when the argument is undefined
DefaultLimit == 100

LimitOr(limit) == IF limit = 0 THEN DefaultLimit ELSE limit

\* getUserTransactions lines 94-106: query on the partition key userId with
\* ScanIndexForward: false and Limit: the items of the user in descending
\* order of the sort key, the first `limit` of them (0 stands for undefined)
getUserTransactions(table, userId, limit) ==
    LET sorted == ByTransactionIdDescending(
                      SelectSeq(table, LAMBDA item : item.userId = userId))
    IN IF Len(sorted) <= LimitOr(limit) THEN sorted
       ELSE SubSeq(sorted, 1, LimitOr(limit))

\* a faulty variant: currency may be updated as well
allowedFieldsAndCurrency ==
    {"amount", "date", "merchant", "category", "type", "description", "status",
     "currency"}

\* updateTransaction line 226
allowedFields ==
    {"amount", "date", "merchant", "category", "type", "description", "status"}

\* lines 228-234: the keys of updates that enter the update expression
UpdatedFields(updates) == DOMAIN updates \cap allowedFields

\* a faulty variant: an update without fields is sent all the same
NothingToUpdateIgnored(updates) == FALSE

\* lines 236-238
NothingToUpdate(updates) == UpdatedFields(updates) = {}

\* lines 240-258: SET of the fields and of updatedAt on the item with the key
SetFields(item, updates, now) ==
    [f \in DOMAIN item |->
        IF f \in UpdatedFields(updates) THEN updates[f]
        ELSE IF f = "updatedAt" THEN now
        ELSE item[f]]

\* dynamoDB.update: the item with the key is changed; without one, an item
\* of the key and the fields set is created
UpdateItem(table, userId, transactionId, updates, now) ==
    LET i == KeyIndex(table, userId, transactionId)
    IN IF i # 0
       THEN [table EXCEPT ![i] = SetFields(table[i], updates, now)]
       ELSE Append(table, SetFields([NoItem EXCEPT !.userId = userId,
                                                   !.transactionId = transactionId],
                                    updates, now))

\* dynamoDB.delete by key (deleteTransaction lines 278-288)
DeleteItem(table, userId, transactionId) ==
    SelectSeq(table, LAMBDA item :
        ~(item.userId = userId /\ item.transactionId = transactionId))

-----------------------------------------------------------------------------
(* Inputs and replies of the environment the model draws from *)

Slots == 1..NumRequests

Ids == 1..NumRequests

User1 == Str("u1", 2)

User2 == Str("u2", 2)

\* the userId of the caller: two users, and a blank string
UserIdInputs == {User1, User2, Padded(EmptyStr)}

TextInputs == {Str("Spent $100 at Starbucks today", 29), EmptyStr}

\* the message of a POST /chat body: one with whitespace around it and runs
\* of blanks and a line break inside, a blank one, and none
Untidy == Str("Spent  $100\nat   Starbucks today", 32)

MessageInputs == {Padded(Untidy), Padded(EmptyStr), Undef}

\* the userId of a POST /chat body
ChatUserIds == {Padded(User1), Undef}

\* .replace(/\s+/g, ' ') (chat.js line 95) on the messages of MessageInputs:
\* every run of whitespace inside the string becomes one blank, and so does
\* a run at either end
CollapseWhitespace(v) ==
    IF v.s = Untidy.s
    THEN [v EXCEPT !.s = "Spent $100 at Starbucks today", !.len = 29]
    ELSE v

\* chat.js lines 87 and 95: message.trim(), then the runs are collapsed and
\* the result trimmed again
NormalizeMessage(message) == Trim(CollapseWhitespace(Trim(message)))

\* sizes of an image buffer in bytes: exactly 10 MB, and one byte more
ImageSizes == {maxSize, maxSize + 1}

\* the limit argument of getUserTransactions: 0 stands for none given
LimitInputs == {0, 1}

Parsed(amount, merchant, type, currency) ==
    [amount |-> amount, date |-> IsoDate(0), merchant |-> merchant,
     category |-> Str("Food", 4), type |-> type, currency |-> currency,
     description |-> Undef, source |-> Undef, rawText |-> Undef]

Starbucks == Str("Starbucks", 9)

Expense == Str("expense", 7)

\* validated data as validateTransaction returns it
Validated(amount, merchant, day) ==
    validateTransaction([Parsed(amount, merchant, Expense, Str("USD", 3))
                            EXCEPT !.date = IsoDate(day),
                                   !.source = Str("manual", 6),
                                   !.rawText = Str("Spent $100 at Starbucks today", 29)],
                        FALSE).v

Content(data) ==
    [t |-> "content", present |-> TRUE, fence |-> "none", valid |-> TRUE,
     data |-> data, response |-> FALSE, api |-> FALSE, status |-> 200]

Rejected(status) ==
    [t |-> "error", present |-> FALSE, fence |-> "none", valid |-> FALSE,
     data |-> Parsed(Undef, Undef, Undef, Undef), response |-> FALSE,
     api |-> TRUE, status |-> status]

\* keys the contract does not ask for, as JSON.parse yields them when the
\* completion carries them
Unrequested ==
    [userId |-> Str("u9", 2), transactionId |-> -1, status |-> "pending",
     timestamp |-> -1, createdAt |-> -1, updatedAt |-> -2, note |-> Str("tip", 3)]

LLMReplies ==
    { Content(Parsed(Num(100, 0), Starbucks, Expense, Str("USD", 3))),
      Content([Parsed(Num(105, 0), Padded(Starbucks), Str("EXPENSE", 7), Str("usd", 3))
                  EXCEPT !.source = Str("receipt", 7),
                         !.rawText = Str("coffee", 6)] @@ Unrequested),
      Content(Parsed(Bool(TRUE), Starbucks, Expense, Undef)),
      Content(Parsed(Num(0, 0), Starbucks, Expense, Undef)),
      Content(Parsed(Num(100, 0), Null, Expense, Undef)),
      Rejected(429) }

Line(text) == [BlockType |-> "LINE", Text |-> text]

Page == [BlockType |-> "PAGE", Text |-> Undef]

OcrReplies ==
    { [t |-> "blocks", code |-> "", blocks |-> <<Page, Line(Str("STARBUCKS TOTAL 100.00", 22))>>],
      [t |-> "blocks", code |-> "", blocks |-> <<Page, Line(Padded(EmptyStr))>>],
      [t |-> "error", code |-> "ThrottlingException", blocks |-> <<>>] }

\* rejections of a DynamoDB call: the error's code, whether its message
\* contains the text 'index', and whether the call was rejected because the
\* index does not exist
MissingIndex ==
    [code |-> "ValidationException", index |-> TRUE, indexUnavailable |-> TRUE]

Throttled ==
    [code |-> "ThrottlingException", index |-> FALSE, indexUnavailable |-> FALSE]

\* the index exists and is throttled: "The level of configured provisioned
\* throughput for one or more global secondary indexes of the table was
\* exceeded"
IndexThrottled ==
    [code |-> "ProvisionedThroughputExceededException", index |-> TRUE,
     indexUnavailable |-> FALSE]

NoQueryError == [code |-> "", index |-> FALSE, indexUnavailable |-> FALSE]

QueryErrors == {MissingIndex, Throttled, IndexThrottled}

-----------------------------------------------------------------------------
(* A request: the locals of one execution of a pipeline entry point.       *)
(* raised (the error as the failing stage threw it), stage (the stage that *)
(* threw), calls (the calls made so far), seen (the number of items in the *)
(* table when the entry point was called) and unlinkFailed record what     *)
(* happened, for the properties.  queryError is the rejection of the index *)
(* query that checkForDuplicates caught, for as long as its catch block    *)
(* runs (the fallback included), or the cause its DatabaseError carries.   *)

NoData ==
    [amount |-> Undef, date |-> Undef, type |-> Undef, merchant |-> Undef,
     category |-> Undef, currency |-> Undef, description |-> Undef,
     source |-> Undef, rawText |-> Undef]

NoResult ==
    [transaction |-> NoItem, isDuplicate |-> FALSE,
     hasDuplicateTransaction |-> FALSE, duplicateTransaction |-> NoItem]

NoCalls ==
    [ocr |-> 0, llm |-> 0, query |-> 0, scan |-> 0, put |-> 0, cleanup |-> 0,
     list |-> 0]

IdleReq ==
    [pc |-> "idle", kind |-> "none", userId |-> Undef, validUserId |-> Undef,
     path |-> 0, size |-> 0, text |-> Undef, data |-> NoData, dups |-> <<>>,
     item |-> NoItem, cleanedUp |-> FALSE, next |-> "none", result |-> NoResult,
     error |-> NoError, raised |-> NoError, stage |-> "none", calls |-> NoCalls,
     seen |-> 0, unlinkFailed |-> FALSE, queryError |-> NoQueryError,
     limit |-> 0, history |-> <<>>, message |-> Undef, extracted |-> NoData,
     lookup |-> NoData]

HasImagePath(q) == q.kind \in {"image", "upload"}

\* a faulty variant: the catch block throws an error of its own
RethrowWrapped(error) == Err("Error", "Transaction processing failed", "", error.kind)

\* the catch blocks of the three entry points: the error is thrown again as
\* it is (transactionService.js lines 59-62, 125-134, 187-190)
Rethrow(error) == error

\* a faulty variant: the catch block cleans up without looking at cleanedUp
FailCleansAgain(q, stage, e) ==
    IF HasImagePath(q)
    THEN [q EXCEPT !.pc = "cleanup", !.next = "throw", !.raised = e, !.stage = stage,
                   !.error = e, !.calls.cleanup = @ + 1]
    ELSE [q EXCEPT !.pc = "failed", !.raised = e, !.stage = stage, !.error = e]

\* a stage threw: processTransactionFromImage first cleans up unless it did
Fail(q, stage, e) ==
    IF HasImagePath(q) /\ ~q.cleanedUp
    THEN [q EXCEPT !.pc = "cleanup", !.next = "throw", !.raised = e, !.stage = stage,
                   !.error = Rethrow(e), !.calls.cleanup = @ + 1]
    ELSE [q EXCEPT !.pc = "failed", !.raised = e, !.stage = stage,
                   !.error = Rethrow(e)]

\* generateConfirmationMessage lines 216-222: amount.toFixed(2) needs a number
ConfirmationThrows(item) == item.amount.k \notin {"number", "nan"}

\* the return of the entry point after a successful put
Confirm(q) ==
    IF ConfirmationThrows(q.item)
    THEN Fail(q, "confirm", Err("TypeError", "transaction.amount.toFixed is not a function", "", ""))
    ELSE [q EXCEPT !.pc = "done",
                   !.result = [transaction |-> q.item, isDuplicate |-> FALSE,
                               hasDuplicateTransaction |-> FALSE,
                               duplicateTransaction |-> NoItem]]

\* a faulty variant: the earlier record is returned as the transaction too
DuplicateResultAsTransaction(duplicates) ==
    [transaction |-> duplicates[1], isDuplicate |-> TRUE,
     hasDuplicateTransaction |-> TRUE, duplicateTransaction |-> duplicates[1]]

\* lines 38-45, 96-107, 166-173: the result returned for a duplicate
DuplicateResult(duplicates) ==
    [transaction |-> NoItem, isDuplicate |-> TRUE,
     hasDuplicateTransaction |-> TRUE, duplicateTransaction |-> duplicates[1]]

ReturnDuplicate(q) ==
    [q EXCEPT !.pc = "duplicate", !.result = DuplicateResult(q.dups)]

\* a faulty variant: the pipeline goes on to createTransaction whatever the
\* list holds
GoesOnToCreateAlways(q, duplicates) == TRUE

\* lines 38 and 48 (96/110, 166/176): a non-empty list ends the request,
\* an empty one goes on to createTransaction
GoesOnToCreate(q, duplicates) == Len(duplicates) = 0

\* after checkForDuplicates returned `duplicates`
AfterDuplicates(q, duplicates, transactionId, timestamp) ==
    IF ~GoesOnToCreate(q, duplicates)
    THEN (IF HasImagePath(q)
          THEN [q EXCEPT !.dups = duplicates, !.pc = "cleanup", !.next = "returnDup",
                         !.calls.cleanup = @ + 1]
          ELSE ReturnDuplicate([q EXCEPT !.dups = duplicates]))
    ELSE [q EXCEPT !.dups = duplicates, !.pc = "put", !.calls.put = @ + 1,
                   !.item = BuildItem(q.validUserId, q.data, transactionId, timestamp)]

\* a faulty variant: source and rawText of the LLM's object are kept
TagSourceUnlessGiven(transactionData, source, text) ==
    [transactionData EXCEPT !.source = Or(transactionData.source, source),
                            !.rawText = Or(transactionData.rawText, text)]

\* lines 28-30, 86-88, 156-158: source and rawText are assigned on the
\* object the LLM adapter returned
TagSource(transactionData, source, text) ==
    [transactionData EXCEPT !.source = source, !.rawText = text]

\* 'manual' in processTransactionFromText, 'ocr' in the image entry points
SourceOf(kind) == IF kind = "text" THEN Str("manual", 6) ELSE Str("ocr", 3)

\* a faulty variant: the object of the LLM adapter is looked up
LookupDataExtracted(transactionData, validatedData) == transactionData

\* lines 36, 94, 164: the second argument of checkForDuplicates
LookupData(transactionData, validatedData) == validatedData

\* extractTransactionFromText is entered with `text`
CallLLM(q, text, key) ==
    LET pre == LLMPrecheck(text, key)
    IN IF ~pre.ok THEN Fail([q EXCEPT !.text = text], "llm", pre.err)
       ELSE [q EXCEPT !.text = text, !.pc = "llm", !.calls.llm = @ + 1]

\* processTransactionFromImage lines 74-80, up to the Textract call
StartImage(q, exists) ==
    LET user == validateUserId(q.userId)
        pre == OcrPrecheckImage(q.path, exists, q.size)
    IN IF ~user.ok THEN Fail(q, "userId", user.err)
       ELSE IF ~pre.ok THEN Fail([q EXCEPT !.validUserId = user.v], "ocr", pre.err)
       ELSE [q EXCEPT !.validUserId = user.v, !.pc = "ocr", !.calls.ocr = @ + 1]

-----------------------------------------------------------------------------
(* Actions *)

\* a faulty variant: ids that can repeat
RepeatingIds == Ids

\* uuidv4(): an id no item and no request in flight carries
FreshIds ==
    Ids \ ({store[i].transactionId : i \in 1..Len(store)}
           \cup {req[s].item.transactionId : s \in Slots})

Set(r, q) == req' = [req EXCEPT ![r] = q]

\* POST /chat -> processTransactionFromText(userId, text), lines 20-26
BeginText(r) ==
    /\ req[r].pc = "idle"
    /\ \E userId \in UserIdInputs, text \in TextInputs :
          LET q == [IdleReq EXCEPT !.kind = "text", !.userId = userId,
                                   !.seen = Len(store)]
              user == validateUserId(userId)
          IN Set(r, IF ~user.ok THEN Fail(q, "userId", user.err)
                    ELSE CallLLM([q EXCEPT !.validUserId = user.v], text, apiKey))
    /\ UNCHANGED <<store, files, clock, apiKey, filler, leapWindow, client, fn>>

\* POST /chat, chat.js lines 72-98: the handler checks userId and message,
\* normalizes the message and calls processTransactionFromText with it
Chat(r) ==
    /\ req[r].pc = "idle"
    /\ \E userId \in ChatUserIds, message \in MessageInputs :
          LET q == [IdleReq EXCEPT !.kind = "text", !.userId = userId,
                                   !.message = message, !.seen = Len(store)]
              user == validateUserId(userId)
          IN Set(r, IF ~Truthy(userId) \/ ~IsString(userId) \/ Trim(userId).len = 0
                    THEN [q EXCEPT !.pc = "rejected",
                                   !.error = ValidationError("User ID is required and cannot be empty", "userId")]
                    ELSE IF ~Truthy(message) \/ ~IsString(message)
                    THEN [q EXCEPT !.pc = "rejected",
                                   !.error = ValidationError("Message is required and must be a string", "message")]
                    ELSE IF Trim(message).len = 0
                    THEN [q EXCEPT !.pc = "rejected",
                                   !.error = ValidationError("Message cannot be empty after trimming whitespace", "message")]
                    ELSE IF ~user.ok THEN Fail(q, "userId", user.err)
                    ELSE CallLLM([q EXCEPT !.validUserId = user.v],
                                 NormalizeMessage(message), apiKey))
    /\ UNCHANGED <<store, files, clock, apiKey, filler, leapWindow, client, fn>>

\* processTransactionFromImage(userId, imagePath) called directly with the
\* path of a file of the caller that the upload route would not have stored:
\* one larger than 10 MB, or none at all (lines 71-80)
BeginImage(r) ==
    /\ req[r].pc = "idle"
    /\ \E userId \in UserIdInputs, size \in {maxSize + 1}, exists \in BOOLEAN :
          LET q == [IdleReq EXCEPT !.kind = "image", !.userId = userId, !.path = r,
                                   !.size = size, !.seen = Len(store)]
          IN /\ Set(r, StartImage(q, exists))
             /\ files' = IF exists THEN files \cup {r} ELSE files
    /\ UNCHANGED <<store, clock, apiKey, filler, leapWindow, client, fn>>

\* processTransactionFromBuffer(userId, imageBuffer), lines 143-150
BeginBuffer(r) ==
    /\ req[r].pc = "idle"
    /\ \E userId \in UserIdInputs, size \in ImageSizes, isBuffer \in BOOLEAN :
          LET q == [IdleReq EXCEPT !.kind = "buffer", !.userId = userId,
                                   !.size = size, !.seen = Len(store)]
              user == validateUserId(userId)
              pre == OcrPrecheckBuffer(isBuffer, size)
          IN Set(r, IF ~user.ok THEN Fail(q, "userId", user.err)
                    ELSE IF ~pre.ok
                    THEN Fail([q EXCEPT !.validUserId = user.v], "ocr", pre.err)
                    ELSE [q EXCEPT !.validUserId = user.v, !.pc = "ocr",
                                   !.calls.ocr = @ + 1])
    /\ UNCHANGED <<store, files, clock, apiKey, filler, leapWindow, client, fn>>

\* POST /chat/upload: upload.single('file') stores the file (at most 10 MB,
\* chat.js line 43) under a name of its own before the handler runs
Upload(r) ==
    /\ req[r].pc = "idle"
    /\ \E userId \in UserIdInputs \cup {Undef}, hasFile \in BOOLEAN :
          /\ Set(r, [IdleReq EXCEPT !.kind = "upload", !.pc = "uploaded",
                                    !.userId = userId,
                                    !.path = IF hasFile THEN r ELSE 0,
                                    !.size = IF hasFile THEN maxSize ELSE 0])
          /\ files' = IF hasFile THEN files \cup {r} ELSE files
    /\ UNCHANGED <<store, clock, apiKey, filler, leapWindow, client, fn>>

\* chat.js lines 115-128: the handler of POST /chat/upload
UploadHandler(r) ==
    /\ req[r].pc = "uploaded"
    /\ LET q == [req[r] EXCEPT !.seen = Len(store)]
       IN Set(r, IF ~Truthy(q.userId)
                 THEN [q EXCEPT !.pc = "rejected",
                                !.error = ValidationError("User ID is required", "userId")]
                 ELSE IF q.path = 0
                 THEN [q EXCEPT !.pc = "rejected",
                                !.error = ValidationError("Image file is required", "file")]
                 ELSE StartImage(q, q.path \in files))
    /\ UNCHANGED <<store, files, clock, apiKey, filler, leapWindow, client, fn>>

\* textract.detectDocumentText resolves or rejects; on text, the LLM adapter
\* is entered (lines 80-84, 150-154)
OcrReturn(r) ==
    /\ req[r].pc = "ocr"
    /\ \E reply \in OcrReplies :
          LET res == OcrResult(reply, req[r].kind = "buffer")
          IN Set(r, IF ~res.ok THEN Fail(req[r], "ocr", res.err)
                    ELSE CallLLM(req[r], res.v, apiKey))
    /\ UNCHANGED <<store, files, clock, apiKey, filler, leapWindow, client, fn>>

\* the completion request resolves or rejects; on a candidate, source and
\* rawText are set, the candidate is validated and the index query is sent
\* (lines 26-36, 84-94, 154-164)
LlmReturn(r) ==
    /\ req[r].pc = "llm"
    /\ \E reply \in LLMReplies :
          LET res == LLMResult(reply)
              transactionData == TagSource(res.v, SourceOf(req[r].kind), req[r].text)
              validatedData == validateTransaction(transactionData, leapWindow)
          IN Set(r, IF ~res.ok THEN Fail(req[r], "llm", res.err)
                    ELSE IF ~validatedData.ok
                    THEN Fail(req[r], "validate", validatedData.err)
                    ELSE [req[r] EXCEPT !.data = validatedData.v, !.pc = "query",
                                        !.extracted = transactionData,
                                        !.lookup = LookupData(transactionData,
                                                              validatedData.v),
                                        !.calls.query = @ + 1])
    /\ UNCHANGED <<store, files, clock, apiKey, filler, leapWindow, client, fn>>

\* the query on merchant-date-index resolves: dynamodbService.js lines
\* 140-151, then the pipeline goes on (createTransaction builds its item and
\* sends the put)
QueryReturn(r) ==
    /\ req[r].pc = "query"
    /\ \E transactionId \in FreshIds :
          LET duplicates == checkForDuplicates(store, req[r].validUserId, req[r].lookup)
          IN /\ Set(r, AfterDuplicates(req[r], duplicates, transactionId, clock))
             /\ clock' = IF GoesOnToCreate(req[r], duplicates) THEN clock + 1 ELSE clock
    /\ UNCHANGED <<store, files, apiKey, filler, leapWindow, client, fn>>

\* the query rejects: lines 153-164
QueryFails(r) ==
    /\ req[r].pc = "query"
    /\ \E error \in QueryErrors :
          Set(r, IF UsesFallback(error)
                 THEN [req[r] EXCEPT !.pc = "scan", !.calls.scan = @ + 1,
                                     !.queryError = error]
                 ELSE Fail([req[r] EXCEPT !.queryError = error], "duplicates",
                           DatabaseError("Failed to check for duplicates: ", error.code)))
    /\ UNCHANGED <<store, files, clock, apiKey, filler, leapWindow, client, fn>>

\* the fallback scan resolves: lines 192-202
ScanReturn(r) ==
    /\ req[r].pc = "scan"
    /\ \E S \in ScanReads(Len(store), filler, ScanLimit), transactionId \in FreshIds :
          LET duplicates == checkForDuplicatesFallback(store, S, req[r].validUserId,
                                                       req[r].lookup)
              caller == [req[r] EXCEPT !.queryError = NoQueryError]
          IN /\ Set(r, AfterDuplicates(caller, duplicates, transactionId, clock))
             /\ clock' = IF GoesOnToCreate(req[r], duplicates) THEN clock + 1 ELSE clock
    /\ UNCHANGED <<store, files, apiKey, filler, leapWindow, client, fn>>

\* the fallback scan rejects: lines 204-207
ScanFails(r) ==
    /\ req[r].pc = "scan"
    /\ Set(r, Fail([req[r] EXCEPT !.queryError = NoQueryError], "duplicates",
                   DatabaseError("Failed to check for duplicates (fallback): ",
                                 Throttled.code)))
    /\ UNCHANGED <<store, files, clock, apiKey, filler, leapWindow, client, fn>>

\* dynamoDB.put resolves: createTransaction returns the item (lines 47-50),
\* the image entry point cleans up, the others return
PutReturn(r) ==
    /\ req[r].pc = "put"
    /\ store' = PutItem(store, req[r].item)
    /\ Set(r, IF HasImagePath(req[r])
              THEN [req[r] EXCEPT !.pc = "cleanup", !.next = "confirm",
                                  !.calls.cleanup = @ + 1]
              ELSE Confirm(req[r]))
    /\ UNCHANGED <<files, clock, apiKey, filler, leapWindow, client, fn>>

\* dynamoDB.put rejects: lines 52-55
PutFails(r) ==
    /\ req[r].pc = "put"
    /\ Set(r, Fail([req[r] EXCEPT !.item = NoItem], "create",
                   DatabaseError("Failed to create transaction: ", Throttled.code)))
    /\ UNCHANGED <<store, files, clock, apiKey, filler, leapWindow, client, fn>>

\* cleanupImageFile(imagePath) finishes (ocrServices.js lines 179-197): the
\* file is unlinked if it exists, a failing unlink is logged and dropped;
\* then the entry point returns or throws
CleanupReturn(r) ==
    /\ req[r].pc = "cleanup"
    /\ \E unlinked \in BOOLEAN :
          LET present == req[r].path # 0 /\ req[r].path \in files
              q == [req[r] EXCEPT !.unlinkFailed = present /\ ~unlinked]
          IN /\ files' = IF present /\ unlinked THEN files \ {q.path} ELSE files
             /\ Set(r, CASE q.next = "returnDup" ->
                                ReturnDuplicate([q EXCEPT !.cleanedUp = TRUE])
                         [] q.next = "confirm" ->
                                Confirm([q EXCEPT !.cleanedUp = TRUE])
                         [] OTHER -> [q EXCEPT !.pc = "failed"])
    /\ UNCHANGED <<store, clock, apiKey, filler, leapWindow, client, fn>>

\* GET /transactions/:userId -> getUserTransactionHistory(userId, limit),
\* transactionService.js lines 199-208, up to the query
BeginHistory(r) ==
    /\ req[r].pc = "idle"
    /\ \E userId \in UserIdInputs, limit \in LimitInputs :
          LET q == [IdleReq EXCEPT !.kind = "history", !.userId = userId,
                                   !.limit = limit, !.seen = Len(store)]
              user == validateUserId(userId)
          IN Set(r, IF ~user.ok THEN Fail(q, "userId", user.err)
                    ELSE [q EXCEPT !.validUserId = user.v, !.pc = "history",
                                   !.calls.list = @ + 1])
    /\ UNCHANGED <<store, files, clock, apiKey, filler, leapWindow, client, fn>>

\* the query of getUserTransactions resolves: the list is returned
HistoryReturn(r) ==
    /\ req[r].pc = "history"
    /\ Set(r, [req[r] EXCEPT !.pc = "listed",
                             !.history = getUserTransactions(store, req[r].validUserId,
                                                             req[r].limit)])
    /\ UNCHANGED <<store, files, clock, apiKey, filler, leapWindow, client, fn>>

\* the query of getUserTransactions rejects: dynamodbService.js lines 108-111
HistoryFails(r) ==
    /\ req[r].pc = "history"
    /\ Set(r, Fail(req[r], "list",
                   DatabaseError("Failed to get user transactions: ", Throttled.code)))
    /\ UNCHANGED <<store, files, clock, apiKey, filler, leapWindow, client, fn>>

-----------------------------------------------------------------------------
(* Calls of the validators and of the LLM adapter on their own: the        *)
(* function, its argument, the number of completion requests it sent and   *)
(* what it returned or threw                                               *)

NoFunctionCall ==
    [op |-> "none", input |-> Undef, reply |-> Rejected(429), requests |-> 0,
     result |-> Ok(Undef)]

\* validateAmount(amount) on numbers at and around its two bounds, a numeric
\* string, a boolean and undefined
ValidateAmountCall ==
    /\ fn.op = "none"
    /\ \E amount \in { Num(-1, 0), Num(0, 0), Num(0, 1), Num(100, 0),
                       Num(999999999, 99), Num(1000000000, 0), Num(1000000000, 1),
                       Num(2000000000, 0), NumStr("100.00", 6, 100, 0), Bool(TRUE),
                       Undef } :
          fn' = [NoFunctionCall EXCEPT !.op = "validateAmount", !.input = amount,
                                       !.result = validateAmount(amount)]
    /\ UNCHANGED <<req, store, files, clock, apiKey, filler, leapWindow, client>>

\* validateDate(dateString) on days around one year from now, a day long
\* past, a date in another notation, and a text that is no date
ValidateDateCall ==
    /\ fn.op = "none"
    /\ \E dateString \in { IsoDate(-400), IsoDate(0), IsoDate(364), IsoDate(365),
                           IsoDate(366), IsoDate(367), TextDate("Jan 15 2024", 11, -300),
                           TextDate("next year", 9, 366), Str("someday", 7), Undef } :
          fn' = [NoFunctionCall EXCEPT !.op = "validateDate", !.input = dateString,
                                       !.result = validateDate(dateString, leapWindow)]
    /\ UNCHANGED <<req, store, files, clock, apiKey, filler, leapWindow, client>>

\* candidates of validateTransaction: every field with a valid and an
\* invalid value, the amount also at the upper bound and the type also as a
\* number; and valid candidates with a type in another case, with blanks
\* around it, another word, an object, zero and null
Candidates ==
    { [Validated(Num(100, 0), Starbucks, 0) EXCEPT !.type = type] :
        type \in { Str("EXPENSE", 7), Str("Income", 6), Str("income", 6),
                   Padded(Expense), Obj, Num(0, 0), Null } }
    \cup
    { [amount |-> amount, date |-> date, type |-> type, merchant |-> merchant,
       category |-> category, currency |-> currency, description |-> description,
       source |-> Str("manual", 6), rawText |-> Str("Spent $100 at Starbucks today", 29)] :
        amount \in {Num(100, 0), Num(0, 0), Num(1000000000, 0), Num(1000000000, 1)},
        date \in {IsoDate(0), Str("someday", 7)},
        type \in {Expense, Str("refund", 6), Num(5, 0)},
        merchant \in {Starbucks, Padded(EmptyStr)},
        category \in {Str("Food", 4), Null},
        currency \in {Str("usd", 3), Str("us1", 3)},
        description \in {Undef, Str("long", 501)} }

\* validateTransaction(transaction)
ValidateTransactionCall ==
    /\ fn.op = "none"
    /\ \E transaction \in Candidates :
          fn' = [NoFunctionCall EXCEPT !.op = "validateTransaction",
                                       !.input = transaction,
                                       !.result = validateTransaction(transaction,
                                                                      leapWindow)]
    /\ UNCHANGED <<req, store, files, clock, apiKey, filler, leapWindow, client>>

-----------------------------------------------------------------------------
(* Direct calls of the store functions (services/dynamodbService.js) by a  *)
(* client: each call is one action.  client.last is the call made last and *)
(* its outcome (sent: a request went to DynamoDB; rejected: DynamoDB        *)
(* rejected it); client.created holds what createTransaction returned,     *)
(* together with its input, for the keys not updated or deleted since.     *)

\* reads of the clock by direct calls
MaxClock == 3

NoUpdates == [f \in {} |-> Undef]

\* updates objects: none of the allowed keys (twice), allowed keys among
\* others, one allowed key
UpdateInputs ==
    { NoUpdates,
      [f \in {"currency", "transactionId"} |->
          IF f = "currency" THEN Str("EUR", 3) ELSE NumRequests + 1],
      [f \in {"amount", "userId", "transactionId", "currency", "createdAt"} |->
          CASE f = "amount" -> Num(50, 0)
            [] f = "userId" -> User2
            [] f = "transactionId" -> NumRequests + 1
            [] f = "currency" -> Str("EUR", 3)
            [] OTHER -> 0],
      [f \in {"status"} |-> "cancelled"] }

CreateInputs == {Validated(Num(100, 0), Starbucks, 0)}

Callers == {User1, User2}

NoCall ==
    [op |-> "none", userId |-> Undef, transactionId |-> 0, limit |-> 0,
     updates |-> NoUpdates, input |-> NoData, item |-> NoItem, items |-> <<>>,
     error |-> NoError, sent |-> FALSE, rejected |-> FALSE]

NoClient == [last |-> NoCall, created |-> {}]

\* what the client holds of the other keys
Forget(created, userId, transactionId) ==
    {c \in created : ~(c.item.userId = userId /\ c.item.transactionId = transactionId)}

Rejection(msg) == DatabaseError(msg, Throttled.code)

\* createTransaction(userId, transactionData), lines 13-56
CreateCall ==
    /\ clock <= MaxClock
    /\ \E userId \in Callers, transactionData \in CreateInputs,
          transactionId \in FreshIds, rejected \in BOOLEAN :
          LET item == BuildItem(userId, transactionData, transactionId, clock)
              call == [NoCall EXCEPT !.op = "create", !.userId = userId,
                                     !.input = transactionData, !.sent = TRUE]
          IN IF rejected
             THEN /\ store' = store
                  /\ client' = [client EXCEPT !.last =
                        [call EXCEPT !.rejected = TRUE, !.error = Rejection("Failed to create transaction: ")]]
             ELSE /\ store' = PutItem(store, item)
                  /\ client' = [last |-> [call EXCEPT !.item = item,
                                                      !.transactionId = transactionId],
                                created |-> client.created
                                            \cup {[item |-> item, input |-> transactionData]}]
    /\ clock' = clock + 1
    /\ UNCHANGED <<req, files, apiKey, filler, leapWindow, fn>>

\* getTransaction(userId, transactionId), lines 65-83
GetCall ==
    /\ \E userId \in Callers, transactionId \in Ids, rejected \in BOOLEAN :
          LET call == [NoCall EXCEPT !.op = "get", !.userId = userId,
                                     !.transactionId = transactionId, !.sent = TRUE]
          IN client' = [client EXCEPT !.last =
                IF rejected
                THEN [call EXCEPT !.rejected = TRUE, !.error = Rejection("Failed to get transaction: ")]
                ELSE [call EXCEPT !.item = getTransaction(store, userId, transactionId)]]
    /\ UNCHANGED <<req, store, files, clock, apiKey, filler, leapWindow, fn>>

\* getUserTransactions(userId, limit), lines 92-112
ListCall ==
    /\ \E userId \in Callers, limit \in LimitInputs, rejected \in BOOLEAN :
          LET call == [NoCall EXCEPT !.op = "list", !.userId = userId,
                                     !.limit = limit, !.sent = TRUE]
          IN client' = [client EXCEPT !.last =
                IF rejected
                THEN [call EXCEPT !.rejected = TRUE, !.error = Rejection("Failed to get user transactions: ")]
                ELSE [call EXCEPT !.items = getUserTransactions(store, userId, limit)]]
    /\ UNCHANGED <<req, store, files, clock, apiKey, filler, leapWindow, fn>>

\* updateTransaction(userId, transactionId, updates), lines 218-267
UpdateCall ==
    /\ clock <= MaxClock
    /\ \E userId \in Callers, transactionId \in Ids, updates \in UpdateInputs,
          rejected \in BOOLEAN :
          LET call == [NoCall EXCEPT !.op = "update", !.userId = userId,
                                     !.transactionId = transactionId,
                                     !.updates = updates]
              table == UpdateItem(store, userId, transactionId, updates, clock)
          IN IF NothingToUpdate(updates)
             THEN /\ store' = store
                  /\ clock' = clock
                  /\ client' = [client EXCEPT !.last = [call EXCEPT !.error =
                        DatabaseError("Failed to update transaction: ",
                                      "No valid fields to update")]]
             ELSE IF rejected
             THEN /\ store' = store
                  /\ clock' = clock + 1
                  /\ client' = [client EXCEPT !.last = [call EXCEPT !.sent = TRUE,
                        !.rejected = TRUE, !.error = Rejection("Failed to update transaction: ")]]
             ELSE /\ store' = table
                  /\ clock' = clock + 1
                  /\ client' =
                        [last |-> [call EXCEPT !.sent = TRUE,
                                      !.item = getTransaction(table, userId, transactionId)],
                         created |-> Forget(client.created, userId, transactionId)]
    /\ UNCHANGED <<req, files, apiKey, filler, leapWindow, fn>>

\* deleteTransaction(userId, transactionId), lines 276-295
DeleteCall ==
    /\ \E userId \in Callers, transactionId \in Ids, rejected \in BOOLEAN :
          LET call == [NoCall EXCEPT !.op = "delete", !.userId = userId,
                                     !.transactionId = transactionId, !.sent = TRUE]
          IN IF rejected
             THEN /\ store' = store
                  /\ client' = [client EXCEPT !.last =
                        [call EXCEPT !.rejected = TRUE, !.error = Rejection("Failed to delete transaction: ")]]
             ELSE /\ store' = DeleteItem(store, userId, transactionId)
                  /\ client' = [last |-> call,
                                created |-> Forget(client.created, userId, transactionId)]
    /\ UNCHANGED <<req, files, clock, apiKey, filler, leapWindow, fn>>

InitStore ==
    /\ req = [r \in Slots |-> IdleReq]
    /\ store = <<>>
    /\ files = {}
    /\ clock = 1
    /\ apiKey = TRUE
    /\ filler = 0
    /\ leapWindow = FALSE
    /\ client = NoClient
    /\ fn = NoFunctionCall

NextStore ==
    \/ CreateCall
    \/ GetCall
    \/ ListCall
    \/ UpdateCall
    \/ DeleteCall

SpecStore == InitStore /\ [][NextStore]_vars

\* replies to a completion request made on its own: those of the pipeline,
\* the contract JSON in a code fence without and with a language tag, text
\* that is no JSON, no content, a rejection with a response, and objects in
\* which any of the required keys are absent or null
ExtractReplies ==
    LLMReplies
    \cup { [Content(Parsed(Num(100, 0), Starbucks, Expense, Str("USD", 3)))
              EXCEPT !.fence = fence] : fence \in {"plain", "json"} }
    \cup { [Content(Parsed(Num(100, 0), Starbucks, Expense, Undef))
              EXCEPT !.valid = FALSE],
           [Content(Parsed(Num(100, 0), Starbucks, Expense, Undef))
              EXCEPT !.present = FALSE],
           [Rejected(503) EXCEPT !.response = TRUE, !.api = FALSE] }
    \cup { Content([field \in DOMAIN NoData |->
                      IF field \in M THEN absent
                      ELSE Parsed(Num(100, 0), Starbucks, Expense, Undef)[field]]) :
             M \in SUBSET {RequiredFields[i] : i \in 1..Len(RequiredFields)},
             absent \in {Undef, Null} }

\* extractTransactionFromText(text) on a message, on blank and empty text
\* and on values that are no strings
ExtractCall ==
    /\ fn.op = "none"
    /\ \E text \in { Str("Spent $100 at Starbucks today", 29), EmptyStr,
                     Padded(EmptyStr), Num(5, 0), Undef },
          reply \in ExtractReplies :
          LET extracted == extractTransactionFromText(text, apiKey, reply)
          IN fn' = [NoFunctionCall EXCEPT !.op = "extractTransactionFromText",
                                          !.input = text, !.reply = reply,
                                          !.requests = extracted.requests,
                                          !.result = extracted.result]
    /\ UNCHANGED <<req, store, files, clock, apiKey, filler, leapWindow, client>>

\* the validators and the LLM adapter called on their own, at any date and
\* with or without an API key
InitFunctions ==
    /\ req = [r \in Slots |-> IdleReq]
    /\ store = <<>>
    /\ files = {}
    /\ clock = 1
    /\ apiKey \in BOOLEAN
    /\ filler = 0
    /\ leapWindow \in BOOLEAN
    /\ client = NoClient
    /\ fn = NoFunctionCall

NextFunctions ==
    \/ ValidateAmountCall
    \/ ValidateDateCall
    \/ ValidateTransactionCall
    \/ ExtractCall

SpecFunctions == InitFunctions /\ [][NextFunctions]_vars

Init ==
    /\ req = [r \in Slots |-> IdleReq]
    /\ store = <<>>
    /\ files = {}
    /\ clock = 1
    /\ apiKey \in BOOLEAN
    /\ filler = ScanLimit
    /\ leapWindow = FALSE
    /\ client = NoClient
    /\ fn = NoFunctionCall

Next ==
    \E r \in Slots :
        \/ BeginText(r)
        \/ BeginImage(r)
        \/ BeginBuffer(r)
        \/ Upload(r)
        \/ UploadHandler(r)
        \/ OcrReturn(r)
        \/ LlmReturn(r)
        \/ QueryReturn(r)
        \/ QueryFails(r)
        \/ ScanReturn(r)
        \/ ScanFails(r)
        \/ PutReturn(r)
        \/ PutFails(r)
        \/ CleanupReturn(r)
        \/ Chat(r)
        \/ BeginHistory(r)
        \/ HistoryReturn(r)
        \/ HistoryFails(r)

Spec == Init /\ [][Next]_vars

-----------------------------------------------------------------------------
(* Properties of the pipeline                                              *)

\* the entry point has returned or thrown
Finished(q) == q.pc \in {"done", "duplicate", "failed"}

\* the entry point is throwing: it has thrown, or it cleans up before it does
Failing(q) == q.pc = "failed" \/ (q.pc = "cleanup" /\ q.next = "throw")

\* the put of the request resolved
PutResolved(q) == q.item # NoItem /\ q.pc # "put"

\* what the field validators promise of a persisted record
ValidAmount(v) ==
    /\ v.k = "number"
    /\ v.w > 0 \/ (v.w = 0 /\ v.f > 0)
    /\ ~GtInt(v, 1000000000)

ValidText(v, maxLen) == IsString(v) /\ v.ws = 0 /\ v.len <= maxLen

ValidRecord(item) ==
    /\ ValidAmount(item.amount)
    /\ item.type \in {Str("income", 6), Str("expense", 7)}
    /\ ValidText(item.merchant, 200) /\ item.merchant.len > 0
    /\ ValidText(item.category, 100) /\ item.category.len > 0
    /\ IsString(item.currency) /\ item.currency.len = 3 /\ IsUpperAlpha3(item.currency)
    /\ IsString(item.date) /\ DateValid(item.date)

\* C1: every record in the store satisfies the validator constraints: its
\* amount is a number with 0 < amount <= 1,000,000,000, its type is income
\* or expense, its merchant and category are trimmed, non-empty and within
\* their lengths, its currency is three upper-case letters and its date is
\* a date.
C1_PersistedRecordsAreValid ==
    \A i \in 1..Len(store) : ValidRecord(store[i])

\* C1, the order of the calls alone: a request sends a put only with data
\* that validateTransaction returned, after its duplicate check.
C1_CreateOnlyAfterValidation ==
    \A r \in Slots :
        req[r].calls.put > 0 =>
            /\ req[r].data # NoData
            /\ validateTransaction(req[r].data, leapWindow).ok
            /\ req[r].calls.query = 1

\* C2: when the duplicate check returned a non-empty list, the request sends
\* no put and builds no record, it ends, and what it returns has transaction
\* null, isDuplicate true and duplicateTransaction the first element of the
\* list; for the text, the image and the buffer entry point alike.
C2_DuplicateEndsWithoutCreate ==
    \A r \in Slots :
        Len(req[r].dups) > 0 =>
            /\ req[r].calls.put = 0
            /\ req[r].item = NoItem
            /\ req[r].pc \in {"duplicate", "cleanup"}
            /\ req[r].pc = "cleanup" => req[r].next = "returnDup"
            /\ req[r].pc = "duplicate" =>
                  /\ req[r].result.transaction = NoItem
                  /\ req[r].result.isDuplicate
                  /\ req[r].result.duplicateTransaction = req[r].dups[1]

C2_Witness ==
    \E r \in Slots :
        /\ req[r].pc = "duplicate"
        /\ req[r].kind = "upload"
        /\ Len(req[r].dups) > 0
        /\ Len(store) = 1
        /\ req[r].result.duplicateTransaction = store[1]

\* item is of the user of q, has the merchant and date of its validated
\* candidate and an amount within 5% of the candidate's
SameBusinessKey(item, q) ==
    /\ item.userId = q.validUserId
    /\ item.merchant = q.data.merchant
    /\ item.date = q.data.date
    /\ WithinTolerance(item.amount, q.data.amount)

\* the store held, when q entered the pipeline, the record of a request
\* that has returned it, and the validated candidate of q is similar to it
FollowsSimilar(q) ==
    /\ q.data # NoData
    /\ \E i \in 1..q.seen, s \in Slots :
          /\ req[s].pc = "done"
          /\ req[s].result.transaction = store[i]
          /\ SameBusinessKey(store[i], q)

\* C3: a request of user u that enters the pipeline after a request of u
\* has completed and persisted a record with the same merchant and date and
\* an amount within 5% of its validated candidate sends no put (the record
\* count is unchanged by it) and, when it returns, returns isDuplicate = true.
C3_SequentialDuplicateDetected ==
    \A r \in Slots :
        FollowsSimilar(req[r])
        => /\ req[r].calls.put = 0
           /\ req[r].pc \in {"done", "duplicate"} => req[r].result.isDuplicate

\* C3 for the requests whose index query resolved (no fallback scan)
C3_OnIndexedPath ==
    \A r \in Slots :
        (FollowsSimilar(req[r]) /\ req[r].calls.scan = 0)
        => /\ req[r].calls.put = 0
           /\ req[r].pc \in {"done", "duplicate"} => req[r].result.isDuplicate

\* C4: nothing between the duplicate check and the put keeps a record out of
\* the store: the record of every request whose put resolved is in the
\* store, whatever the store held by then; so two concurrent requests of one
\* user with equal validated data that both passed the duplicate check are
\* both persisted.
C4_EveryResolvedPutIsStored ==
    \A r \in Slots :
        PutResolved(req[r]) => \E i \in 1..Len(store) : store[i] = req[r].item

\* the race: both requests entered on an empty store, both passed the check
\* with an empty list, both returned their own record, and the store holds
\* two records of one user with the same merchant, date and amount
C4_Witness ==
    \E r, s \in Slots :
        /\ r # s
        /\ req[r].pc = "done" /\ req[s].pc = "done"
        /\ req[r].seen = 0 /\ req[s].seen = 0
        /\ req[r].dups = <<>> /\ req[s].dups = <<>>
        /\ ~req[r].result.isDuplicate /\ ~req[s].result.isDuplicate
        /\ req[r].validUserId = req[s].validUserId
        /\ req[r].data = req[s].data
        /\ SameBusinessKey(req[r].item, req[s])
        /\ Len(store) = 2
        /\ {store[1], store[2]} = {req[r].item, req[s].item}
        /\ store[1] # store[2]

\* processTransactionFromImage is being or has been executed for q
InImagePipeline(q) ==
    HasImagePath(q) /\ q.pc \notin {"idle", "uploaded", "rejected"}

\* C5: in processTransactionFromImage cleanupImageFile is invoked at most
\* once, and exactly once by the time the entry point has returned or
\* thrown, on every exit: success, duplicate, and failure in any stage
\* (that of the confirmation message after the first cleanup included).
C5_CleanupExactlyOnce ==
    \A r \in Slots :
        InImagePipeline(req[r]) =>
            /\ req[r].calls.cleanup <= 1
            /\ Finished(req[r]) => req[r].calls.cleanup = 1

\* the exit the cleanedUp flag is there for: the put resolved, the file was
\* cleaned up, and then the confirmation message threw
C5_Witness ==
    \E r \in Slots :
        /\ req[r].kind = "upload"
        /\ req[r].pc = "failed"
        /\ req[r].stage = "confirm"
        /\ req[r].cleanedUp
        /\ req[r].calls.cleanup = 1

\* the error type each stage fails with
StageErrorKind(stage) ==
    CASE stage \in {"userId", "validate"} -> "ValidationError"
      [] stage = "ocr" -> "OCRError"
      [] stage = "llm" -> "LLMError"
      [] stage \in {"duplicates", "create", "list"} -> "DatabaseError"
      [] OTHER -> "TypeError"

\* no call of a stage after `stage` has been made by q
NoLaterStage(q, stage) ==
    /\ stage = "userId" => q.calls.ocr = 0
    /\ stage \in {"userId", "ocr"} => q.calls.llm = 0
    /\ stage \in {"userId", "ocr", "llm", "validate"} =>
          q.calls.query = 0 /\ q.calls.scan = 0
    /\ stage # "create" => q.calls.put = 0 /\ q.item = NoItem
    /\ stage = "create" => q.calls.put = 1 /\ q.item = NoItem

\* C6: a failure in identity validation, OCR, LLM extraction, field
\* validation, the duplicate check or persistence ends the request: no later
\* stage has run or runs, nothing is returned, and the error the entry point
\* throws is the very error the stage raised, of the stage's type.
C6_FailureEndsRequest ==
    \A r \in Slots :
        (Failing(req[r]) /\ req[r].stage # "confirm") =>
            /\ req[r].error = req[r].raised
            /\ req[r].error.kind = StageErrorKind(req[r].stage)
            /\ NoLaterStage(req[r], req[r].stage)
            /\ req[r].result = NoResult

C6_Witness ==
    \E r \in Slots :
        /\ req[r].pc = "failed"
        /\ req[r].kind = "upload"
        /\ req[r].stage = "duplicates"
        /\ req[r].calls.ocr = 1 /\ req[r].calls.llm = 1 /\ req[r].calls.query = 1
        /\ req[r].error.kind = "DatabaseError"

\* q was called with the path of a file larger than 10 MB
Oversize(q) == q.kind = "image" /\ q.size > maxSize

NoExternalCall(q) ==
    /\ q.calls.ocr = 0 /\ q.calls.llm = 0
    /\ q.calls.query = 0 /\ q.calls.scan = 0 /\ q.calls.put = 0

\* C7 as stated: an image request for a file larger than 10 MB fails with
\* an OCR failure, without any Textract, LLM or store call, and the
\* temporary file is gone when the request has returned; a file of exactly
\* 10 MB is not rejected for its size.
C7_OversizeRejected ==
    \A r \in Slots :
        /\ (Oversize(req[r]) /\ Finished(req[r])) =>
              /\ req[r].pc = "failed"
              /\ req[r].error.kind = "OCRError"
              /\ NoExternalCall(req[r])
              /\ req[r].path \notin files
        /\ (req[r].size = maxSize /\ Failing(req[r])) => req[r].error.detail # "size"

\* C7 amended: for a file larger than 10 MB the request fails without any
\* Textract, LLM or store call and cleanupImageFile is invoked once, which
\* removes the file unless the unlink fails; the failure is the OCR failure
\* when the user id is valid and the validation failure on userId when it is
\* not.  A file or buffer of exactly 10 MB is not rejected for its size.
C7_OversizeRejectedForValidUser ==
    \A r \in Slots :
        /\ Oversize(req[r]) =>
              /\ req[r].pc \in {"cleanup", "failed"}
              /\ NoExternalCall(req[r])
              /\ req[r].error.kind =
                    (IF validateUserId(req[r].userId).ok THEN "OCRError"
                     ELSE "ValidationError")
              /\ ~validateUserId(req[r].userId).ok => req[r].error.field = "userId"
              /\ req[r].pc = "failed" =>
                    /\ req[r].calls.cleanup = 1
                    /\ req[r].path \in files => req[r].unlinkFailed
        /\ (req[r].size = maxSize /\ Failing(req[r])) => req[r].error.detail # "size"

\* a file larger than 10 MB, of a valid user, rejected for its size and
\* removed; and a 10 MB upload that went on to Textract
C7_Witness ==
    \E r, s \in Slots :
        /\ Oversize(req[r])
        /\ req[r].pc = "failed"
        /\ req[r].stage = "ocr"
        /\ req[r].error.detail = "size"
        /\ validateUserId(req[r].userId).ok
        /\ req[r].path \notin files
        /\ ~req[r].unlinkFailed
        /\ req[s].kind = "upload"
        /\ req[s].size = maxSize
        /\ req[s].calls.ocr = 1

\* C8, first half: the temporary file of an upload request that has
\* finished (returned, thrown, or been rejected by the route) is deleted.
C8_UploadFileDeleted ==
    \A r \in Slots :
        (/\ req[r].kind = "upload"
         /\ req[r].path # 0
         /\ req[r].pc \in {"done", "duplicate", "failed", "rejected"})
        => req[r].path \notin files

\* C8, second half: no request deletes the file of another request: the
\* file of an upload request is there until its own cleanup has run.
C8_NoForeignDeletion ==
    \A r \in Slots :
        (/\ req[r].kind = "upload"
         /\ req[r].path # 0
         /\ req[r].pc \in {"uploaded", "ocr", "llm", "query", "scan", "put", "cleanup"}
         /\ ~req[r].cleanedUp)
        => req[r].path \in files

-----------------------------------------------------------------------------
(* The duplicate check over arbitrary table contents: a request of User1   *)
(* that has validated its candidate and sent the index query, on a table   *)
(* that holds up to MaxStored records of two users.                        *)

MaxStored == 2

\* amounts around the 5% bounds of the candidates 100.00 and 95.00
StoredAmounts ==
    { Num(94, 99), Num(95, 0), Num(95, 1), Num(100, 0), Num(104, 99),
      Num(105, 0), Num(105, 1), Num(99, 75), Num(99, 76), Num(90, 25),
      Num(90, 24) }

CandidateAmounts == {Num(100, 0), Num(95, 0)}

\* records the table can hold: of User1 at Starbucks today with any of the
\* amounts, or with amount 100.00 elsewhere or on the day before; of User2
\* at Starbucks today with an amount in or out of the candidates' windows
StoredRecords ==
    { BuildItem(User1, data, 0, 0) :
        data \in {Validated(amount, Starbucks, 0) : amount \in StoredAmounts}
                 \cup {Validated(Num(100, 0), Str("Dunkin", 6), 0),
                       Validated(Num(100, 0), Starbucks, -1)} }
    \cup { BuildItem(User2, Validated(amount, Starbucks, 0), 0, 0) :
             amount \in {Num(95, 0), Num(100, 0), Num(105, 1)} }

\* tables of n records, each with an id and a timestamp of its own
Tables(n) ==
    { [i \in 1..n |-> [records[i] EXCEPT !.transactionId = NumRequests + i,
                                         !.timestamp = i, !.createdAt = i,
                                         !.updatedAt = i]] :
        records \in [1..n -> StoredRecords] }

\* processTransactionFromText after validateTransaction returned `data`
\* (transactionService.js lines 23-36)
AtDuplicateCheck(data, seen) ==
    [IdleReq EXCEPT !.kind = "text", !.userId = User1, !.validUserId = User1,
                    !.text = data.rawText, !.data = data, !.lookup = data,
                    !.pc = "query",
                    !.calls.llm = 1, !.calls.query = 1, !.seen = seen]

InitDup ==
    /\ \E n \in 0..MaxStored :
          /\ store \in Tables(n)
          /\ \E amount \in CandidateAmounts :
                req = [r \in Slots |->
                         IF r = 1 THEN AtDuplicateCheck(Validated(amount, Starbucks, 0), n)
                         ELSE IdleReq]
          /\ clock = n + 1
    /\ files = {}
    /\ apiKey = TRUE
    /\ filler \in {0, ScanLimit}
    /\ leapWindow = FALSE
    /\ client = NoClient
    /\ fn = NoFunctionCall

NextDup ==
    \E r \in Slots :
        \/ QueryReturn(r)
        \/ QueryFails(r)
        \/ ScanReturn(r)
        \/ ScanFails(r)
        \/ PutReturn(r)
        \/ PutFails(r)

SpecDup == InitDup /\ [][NextDup]_vars

\* checkForDuplicates has returned to q
Checked(q) ==
    \/ q.pc \in {"put", "duplicate", "done"}
    \/ q.pc = "failed" /\ q.stage \in {"create", "confirm"}

\* amounts in whole cents
Cents(v) == 100 * v.w + v.f

\* the matching rule as stated, in whole cents: 100 * |e - c| <= 5 * c
Matches(e, q) ==
    /\ e.merchant = q.data.merchant
    /\ e.date = q.data.date
    /\ e.userId = q.validUserId
    /\ LET d == Cents(e.amount) - Cents(q.data.amount)
       IN 100 * (IF d < 0 THEN -d ELSE d) <= 5 * Cents(q.data.amount)

\* the table as it was when q asked
TableSeen(q) == SubSeq(store, 1, q.seen)

\* C9: what checkForDuplicates returns is exactly the records of the table
\* with the candidate's merchant and date, the requesting user's id and an
\* amount e with |e - c| / c <= 0.05 for the candidate's amount c.
C9_ReturnsExactlyTheMatches ==
    \A r \in Slots :
        Checked(req[r]) =>
            req[r].dups = SelectSeq(TableSeen(req[r]), LAMBDA e : Matches(e, req[r]))

\* C9 for the calls whose index query resolved (no fallback scan)
C9_OnIndexedPath ==
    \A r \in Slots :
        (Checked(req[r]) /\ req[r].calls.scan = 0) =>
            req[r].dups = SelectSeq(TableSeen(req[r]), LAMBDA e : Matches(e, req[r]))

\* C10: every record checkForDuplicates returns to a request of user u is a
\* record of u, on the indexed and on the fallback path; the record returned
\* as duplicateTransaction is one of u; and when the table holds no similar
\* record of u (whatever it holds of other users) the request goes on to
\* put its record, which is stored when the put resolves.
C10_OnlyOwnRecordsCount ==
    \A r \in Slots :
        /\ \A i \in 1..Len(req[r].dups) : req[r].dups[i].userId = req[r].validUserId
        /\ req[r].pc = "duplicate" =>
              req[r].result.duplicateTransaction.userId = req[r].validUserId
        /\ (/\ Checked(req[r])
            /\ \A i \in 1..req[r].seen : ~SameBusinessKey(store[i], req[r]))
           => /\ req[r].calls.put = 1
              /\ req[r].pc = "done" =>
                    \E i \in 1..Len(store) : store[i] = req[r].result.transaction

\* the index query returned another user's similar record first and the
\* user's own second: the own one is returned as the duplicate
C10_Witness ==
    \E r \in Slots :
        /\ req[r].pc = "duplicate"
        /\ req[r].calls.scan = 0
        /\ Len(store) = 2
        /\ store[1].userId # req[r].validUserId
        /\ SameBusinessKey([store[1] EXCEPT !.userId = req[r].validUserId], req[r])
        /\ req[r].dups = <<store[2]>>
        /\ req[r].result.duplicateTransaction = store[2]

\* the records in a list
Records(items) == {items[i] : i \in 1..Len(items)}

\* C11: for every table, user and candidate, the fallback (scan with Limit
\* 100, filter on userId, merchant and date, then the amount filter) returns
\* the same set of records as the indexed lookup (query on the index, then
\* the user and amount filter) does on that table, also when the table
\* holds more than 100 items.
C11_FallbackEqualsIndexed ==
    \A r \in Slots :
        (Checked(req[r]) /\ req[r].calls.scan = 1) =>
            Records(req[r].dups) =
                Records(checkForDuplicates(TableSeen(req[r]), req[r].validUserId,
                                           req[r].data))

\* C11 for the tables that hold fewer than 100 items in all
C11_EqualBelowLimit ==
    \A r \in Slots :
        (Checked(req[r]) /\ req[r].calls.scan = 1
           /\ req[r].seen + filler < ScanLimit) =>
            Records(req[r].dups) =
                Records(checkForDuplicates(TableSeen(req[r]), req[r].validUserId,
                                           req[r].data))

\* C12: the scan fallback is issued only when the index query was rejected
\* because the index is unavailable; a request whose index query was
\* rejected for any other reason has issued no scan and fails with a
\* DatabaseError.
C12_FallbackOnlyWhenIndexUnavailable ==
    \A r \in Slots :
        /\ req[r].pc = "scan" => req[r].queryError.indexUnavailable
        /\ (req[r].queryError # NoQueryError /\ ~req[r].queryError.indexUnavailable)
           => /\ Failing(req[r])
              /\ req[r].stage = "duplicates"
              /\ req[r].error.kind = "DatabaseError"

\* C12 for rejections whose message does not contain 'index'
C12_WhenMessageHasNoIndex ==
    \A r \in Slots :
        (req[r].queryError # NoQueryError /\ ~req[r].queryError.index)
        => /\ req[r].calls.scan = 0
           /\ Failing(req[r])
           /\ req[r].stage = "duplicates"
           /\ req[r].error.kind = "DatabaseError"

-----------------------------------------------------------------------------
(* Properties of the store functions                                       *)

\* every item of the table is as createTransaction wrote it
WrittenByPipeline(table) ==
    \A i \in 1..Len(table) :
        /\ table[i].timestamp > 0
        /\ table[i].status = "confirmed"
        /\ table[i].updatedAt = table[i].createdAt

\* the last call was op and returned
Returned(op) == client.last.op = op /\ client.last.error = NoError

\* the list holds records of the user only, and at most limit of them
OwnAndCapped(items, userId, limit) ==
    /\ \A i \in 1..Len(items) : items[i].userId = userId
    /\ Len(items) <= LimitOr(limit)

\* the list is in descending order of timestamp and no record of the user
\* left out is newer than one in it
NewestFirst(items, table, userId) ==
    /\ \A i, j \in 1..Len(items) : i < j => items[i].timestamp >= items[j].timestamp
    /\ \A k \in 1..Len(table) :
          (table[k].userId = userId /\ table[k] \notin Records(items)) =>
              \A i \in 1..Len(items) : items[i].timestamp >= table[k].timestamp

\* C13: on a table written by createTransaction, getUserTransactions(userId,
\* limit) returns records of userId only, at most limit of them (100 without
\* a limit), in descending order of timestamp, and they are the records of
\* the user with the greatest timestamps.
C13_ListsNewestFirst ==
    (Returned("list") /\ WrittenByPipeline(store)) =>
        /\ OwnAndCapped(client.last.items, client.last.userId, client.last.limit)
        /\ Records(client.last.items) \subseteq Records(store)
        /\ NewestFirst(client.last.items, store, client.last.userId)

\* C13 without the order: only records of the user, at most limit of them
C13_OwnAndCapped ==
    Returned("list") =>
        /\ OwnAndCapped(client.last.items, client.last.userId, client.last.limit)
        /\ Records(client.last.items) \subseteq Records(store)

\* the fields of a record that come from the validated input
InputFields ==
    {"amount", "date", "merchant", "category", "type", "currency", "description",
     "source", "rawText"}

\* C14: for every record r that createTransaction returned and whose key was
\* not updated or deleted since, getTransaction(r.userId, r.transactionId)
\* returns a record equal to r, whose input fields equal those of the
\* validated input; and a getTransaction that DynamoDB did not reject ends
\* without error, with null when no record has the key.
C14_CreatedRecordIsReadBack ==
    /\ \A c \in client.created :
          LET got == getTransaction(store, c.item.userId, c.item.transactionId)
          IN /\ got = c.item
             /\ \A f \in InputFields : got[f] = c.input[f]
    /\ (client.last.op = "get" /\ ~client.last.rejected) =>
          /\ client.last.error = NoError
          /\ client.last.item \in Records(store) \cup {NoItem}
          /\ client.last.item \in Records(store) =>
                /\ client.last.item.userId = client.last.userId
                /\ client.last.item.transactionId = client.last.transactionId
          /\ client.last.item = NoItem =>
                KeyIndex(store, client.last.userId, client.last.transactionId) = 0

\* a record was created and read back, next to a record of the other user
C14_Witness ==
    /\ Returned("get")
    /\ \E c \in client.created : client.last.item = c.item
    /\ \E i \in 1..Len(store) : store[i].userId # client.last.userId

\* the allow-list of mutable fields, as the specification states it
AllowList ==
    {"amount", "date", "merchant", "category", "type", "description", "status"}

\* C15: an updateTransaction whose updates hold no key of the allow-list
\* (an empty object included) fails with a DatabaseError, sends no update
\* and leaves the table, every updatedAt included, as it was.
C15_UpdateWithoutFieldsRejected ==
    [][(client'.last.op = "update"
          /\ DOMAIN client'.last.updates \cap AllowList = {})
        => /\ store' = store
           /\ ~client'.last.sent
           /\ client'.last.error.kind = "DatabaseError"]_vars

\* an update of an existing record with keys outside the allow-list only
C15_Witness ==
    /\ client.last.op = "update"
    /\ DOMAIN client.last.updates = {"currency", "transactionId"}
    /\ KeyIndex(store, client.last.userId, client.last.transactionId) # 0
    /\ ~client.last.sent
    /\ client.last.error.kind = "DatabaseError"

\* the step is an updateTransaction that DynamoDB carried out
UpdateDone ==
    /\ client'.last.op = "update"
    /\ client'.last.sent
    /\ ~client'.last.rejected

\* C16: a successful updateTransaction(userId, transactionId, updates)
\* changes, in the record with that key, only the allow-listed fields that
\* updates holds (to the values it holds) and updatedAt; every other key of
\* updates is ignored, so userId and transactionId of every record stay as
\* they are, and no other record is modified.
C16_UpdateChangesOnlyAllowedFields ==
    [][UpdateDone =>
        LET call == client'.last
            changed == DOMAIN call.updates \cap AllowList
        IN /\ Len(store') >= Len(store)
           /\ \A i \in 1..Len(store) :
                 IF store[i].userId = call.userId
                    /\ store[i].transactionId = call.transactionId
                 THEN \A f \in DOMAIN store[i] :
                         /\ f \in changed => store'[i][f] = call.updates[f]
                         /\ f \notin changed \cup {"updatedAt"} =>
                               store'[i][f] = store[i][f]
                 ELSE store'[i] = store[i]
           /\ \A i \in (Len(store) + 1)..Len(store') :
                 /\ store'[i].userId = call.userId
                 /\ store'[i].transactionId = call.transactionId
                 /\ KeyIndex(store, call.userId, call.transactionId) = 0]_vars

\* an update with allowed and other keys was carried out on one of two
\* records: amount changed, currency and the key did not
C16_Witness ==
    /\ client.last.op = "update"
    /\ client.last.sent /\ ~client.last.rejected
    /\ "userId" \in DOMAIN client.last.updates
    /\ Len(store) = 2
    /\ \E i \in 1..2 :
          /\ store[i].userId = client.last.userId
          /\ store[i].transactionId = client.last.transactionId
          /\ store[i].amount = Num(50, 0)
          /\ store[i].currency = Str("USD", 3)
          /\ store[i].createdAt < store[i].updatedAt
          /\ store[3 - i].amount = Num(100, 0)

-----------------------------------------------------------------------------
(* Further properties of the pipeline                                      *)

\* the (userId, transactionId) keys of a table
Keys(table) == {<<table[i].userId, table[i].transactionId>> : i \in 1..Len(table)}

\* the record a Done request returned is in the table once, under a key no
\* other record has, and the request sent one put
OneRecordPerDone ==
    \A r \in Slots :
        req[r].pc = "done" =>
            /\ req[r].calls.put = 1
            /\ Cardinality({i \in 1..Len(store) : store[i] = req[r].result.transaction}) = 1
            /\ Cardinality({i \in 1..Len(store) :
                   /\ store[i].userId = req[r].result.transaction.userId
                   /\ store[i].transactionId = req[r].result.transaction.transactionId}) = 1

\* a step removes and changes no record, and adds at most one, under a key
\* that was not in the table
TableOnlyGrows ==
    /\ \A i \in 1..Len(store) : i <= Len(store') /\ store'[i] = store[i]
    /\ Len(store') <= Len(store) + 1
    /\ Len(store') = Len(store) + 1 =>
          <<store'[Len(store')].userId, store'[Len(store')].transactionId>>
              \notin Keys(store)

\* C17: under every interleaving of text, image, buffer and history
\* requests the set of stored keys only grows: no step deletes a record or
\* overwrites an existing key, and a Done request has added exactly one
\* record, under a key that was not in the table before.
C17_KeysOnlyGrow == []OneRecordPerDone /\ [][TableOnlyGrows]_vars

\* a request is Done and a history listing that ran beside it lists its
\* record
C17_Witness ==
    \E r, s \in Slots :
        /\ req[r].pc = "done"
        /\ req[s].pc = "listed"
        /\ req[s].seen = 0
        /\ req[s].history = <<req[r].result.transaction>>
        /\ store = <<req[r].result.transaction>>

\* the requests whose entry point has returned a result
HasReturned(r) == req[r].pc \in {"done", "duplicate"}

\* the put of request r has resolved and its item is in the table
CreateSucceeded(r) ==
    /\ req[r].calls.put = 1
    /\ PutResolved(req[r])
    /\ \E i \in 1..Len(store) : store[i] = req[r].item

\* C18: a result with isDuplicate = false is returned only after the put of
\* the request's createTransaction has resolved, and its transaction is the
\* record written, with status 'confirmed' and the validated user id; in
\* every returned result transaction is null exactly when isDuplicate is
\* true, and duplicateTransaction is present exactly when isDuplicate is true.
C18_ResultShape ==
    \A r \in Slots :
        HasReturned(r) =>
            LET result == req[r].result
            IN /\ ~result.isDuplicate =>
                      /\ CreateSucceeded(r)
                      /\ result.transaction = req[r].item
                      /\ result.transaction.status = "confirmed"
                      /\ result.transaction.userId = req[r].validUserId
                      /\ req[r].validUserId = Trim(req[r].userId)
               /\ (result.transaction = NoItem) <=> result.isDuplicate
               /\ result.hasDuplicateTransaction <=> result.isDuplicate
               /\ result.isDuplicate =>
                      /\ req[r].calls.put = 0
                      /\ result.duplicateTransaction = req[r].dups[1]

\* one request has returned the record it wrote and another one a duplicate
\* of that record
C18_Witness ==
    \E r, s \in Slots :
        /\ req[r].pc = "done"
        /\ ~req[r].result.isDuplicate
        /\ req[s].pc = "duplicate"
        /\ req[s].result.isDuplicate
        /\ req[s].result.duplicateTransaction = req[r].result.transaction

ImageKinds == {"image", "upload", "buffer"}

\* the steps of a request from one position to the next: Received (idle,
\* uploaded), Extracting (ocr), Structuring and Validating (llm),
\* CheckingDuplicates (query, scan), DuplicateFound (duplicate), Persisting
\* (put), Done (done); cleanup is the image entry point's unlink on its way
\* to a return or a throw
StageEdges ==
    ({"idle"} \X {"uploaded", "rejected", "ocr", "llm", "history", "cleanup", "failed"})
    \cup ({"uploaded"} \X {"rejected", "ocr", "cleanup", "failed"})
    \cup ({"ocr"} \X {"llm", "cleanup", "failed"})
    \cup ({"llm"} \X {"query", "cleanup", "failed"})
    \cup ({"query"} \X {"scan", "duplicate", "put", "cleanup", "failed"})
    \cup ({"scan"} \X {"duplicate", "put", "cleanup", "failed"})
    \cup ({"put"} \X {"done", "cleanup", "failed"})
    \cup ({"cleanup"} \X {"done", "duplicate", "failed"})
    \cup ({"history"} \X {"listed", "failed"})

StageStep ==
    \A r \in Slots :
        req'[r].pc # req[r].pc =>
            /\ <<req[r].pc, req'[r].pc>> \in StageEdges
            /\ req'[r].pc = "ocr" => req'[r].kind \in ImageKinds
            /\ req'[r].pc = "llm" =>
                  IF req'[r].kind = "text" THEN req[r].pc = "idle" ELSE req[r].pc = "ocr"
            /\ req'[r].pc = "put" => req'[r].dups = <<>>
            /\ req'[r].pc = "duplicate" =>
                  /\ req'[r].dups # <<>>
                  /\ req[r].pc = "cleanup" => req[r].next = "returnDup"
            /\ req'[r].pc = "done" =>
                  /\ PutResolved(req'[r])
                  /\ req[r].pc = "cleanup" => req[r].next = "confirm"
            /\ (req'[r].pc = "cleanup" /\ req'[r].next = "confirm") => req[r].pc = "put"
            /\ (req'[r].pc = "cleanup" /\ req'[r].next = "returnDup") =>
                  req[r].pc \in {"query", "scan"}

\* the calls a request has made so far are in the order of the stages
CallOrder(q) ==
    /\ \A c \in {"ocr", "llm", "query", "scan", "put"} : q.calls[c] <= 1
    /\ q.kind = "text" => q.calls.ocr = 0
    /\ (q.kind \in ImageKinds /\ q.calls.llm > 0) =>
          /\ q.calls.ocr = 1
          /\ q.pc # "ocr"
          /\ IsString(q.text)
    /\ q.calls.query > 0 => q.calls.llm = 1 /\ q.pc # "llm"
    /\ q.calls.scan > 0 => q.calls.query = 1
    /\ q.calls.put > 0 =>
          /\ q.calls.query = 1
          /\ q.pc \notin {"query", "scan"}
          /\ q.dups = <<>>

\* the data the duplicate lookup was called with are the validated ones
LookupOnValidated(q) ==
    q.calls.query > 0 =>
        LET validatedData == validateTransaction(q.extracted, leapWindow)
        IN /\ validatedData.ok
           /\ q.lookup.merchant = validatedData.v.merchant
           /\ q.lookup.date = validatedData.v.date
           /\ q.lookup.amount = validatedData.v.amount
           /\ ~q.lookup.merchant.ws

\* C19: the stages of a request occur in the order Received, Extracting
\* (image requests only), Structuring, Validating, CheckingDuplicates, then
\* DuplicateFound or Persisting and Done: the LLM call is not started before
\* the OCR call returned, the duplicate lookup is made with the validated
\* merchant, date and amount and not with the extracted ones, and the put of
\* createTransaction is not sent before the lookup returned an empty list.
C19_StageOrder ==
    /\ [](\A r \in Slots : CallOrder(req[r]) /\ LookupOnValidated(req[r]))
    /\ [][StageStep]_vars

\* a buffer request went through all stages to Done, and the merchant the
\* LLM extracted differs from the validated one the lookup was made with
C19_Witness ==
    \E r \in Slots :
        /\ req[r].pc = "done"
        /\ req[r].kind = "buffer"
        /\ req[r].calls.ocr = 1 /\ req[r].calls.llm = 1
        /\ req[r].calls.query = 1 /\ req[r].calls.put = 1
        /\ req[r].extracted.merchant # req[r].lookup.merchant
        /\ req[r].extracted.merchant = Padded(req[r].lookup.merchant)

\* what the text request r was called with: the normalized message of the
\* route, or the text of a direct call
TextPassed(q) == IF q.message = Undef THEN q.text ELSE NormalizeMessage(q.message)

\* the requests whose createTransaction wrote table[i]
WrittenBy(item) == {r \in Slots : PutResolved(req[r]) /\ req[r].item = item}

\* C20: a record persisted by a text request has source 'manual' and as
\* rawText the text the pipeline was called with (for POST /chat the trimmed,
\* whitespace-collapsed message); a record persisted by an image request
\* (path or buffer) has source 'ocr' and as rawText the text the OCR adapter
\* returned; source and rawText of the LLM's response do not override these.
C20_SourceAndRawText ==
    \A i \in 1..Len(store) :
        /\ WrittenBy(store[i]) # {}
        /\ \A r \in WrittenBy(store[i]) :
              /\ req[r].kind = "text" =>
                    /\ store[i].source = Str("manual", 6)
                    /\ store[i].rawText = TextPassed(req[r])
                    /\ ~(req[r].message # Undef /\ store[i].rawText.ws)
              /\ req[r].kind \in ImageKinds =>
                    /\ store[i].source = Str("ocr", 3)
                    /\ store[i].rawText = req[r].text
                    /\ req[r].calls.ocr = 1
              /\ req[r].kind \in {"text"} \cup ImageKinds

\* a POST /chat request with an untidy message and a buffer request have
\* each written a record, from an LLM response that carried a source and a
\* rawText of its own
C20_Witness ==
    \E r, s \in Slots :
        /\ req[r].pc = "done" /\ req[s].pc = "done"
        /\ req[r].kind = "text" /\ req[r].message = Padded(Untidy)
        /\ req[r].item.rawText = Str("Spent $100 at Starbucks today", 29)
        /\ req[s].kind = "buffer"
        /\ req[s].extracted.amount = Num(105, 0)
        /\ req[s].item.source = Str("ocr", 3)
        /\ \E i \in 1..Len(store) : store[i] = req[s].item

-----------------------------------------------------------------------------
(* Properties of the validators and of the LLM adapter                     *)

FieldOrder ==
    <<"amount", "date", "type", "merchant", "category", "currency", "description">>

\* whether the validator of the field rejects the field's value
FieldInvalid(transaction, field) ==
    CASE field = "amount" -> ~validateAmount(transaction.amount).ok
      [] field = "date" -> ~validateDate(transaction.date, leapWindow).ok
      [] field = "type" -> ~validateTransactionType(transaction.type).ok
      [] field = "merchant" -> ~validateMerchant(transaction.merchant).ok
      [] field = "category" -> ~validateCategory(transaction.category).ok
      [] field = "currency" ->
             ~validateCurrency(Or(transaction.currency, Str("USD", 3))).ok
      [] OTHER -> transaction.description.len > 500

InvalidAt(transaction) ==
    {i \in 1..Len(FieldOrder) : FieldInvalid(transaction, FieldOrder[i])}

\* the earliest of a non-empty set of positions
Earliest(S) == CHOOSE i \in S : \A j \in S : i <= j

\* the failure of validateTransaction is that of the earliest invalid field
FailsOnEarliest(transaction, result) ==
    IF InvalidAt(transaction) = {} THEN result.ok
    ELSE /\ ~result.ok
         /\ result.err.kind = "ValidationError"
         /\ result.err.field = FieldOrder[Earliest(InvalidAt(transaction))]
         /\ result.err.list = <<>>

\* C21: validateTransaction checks the fields in the order amount, date,
\* type, merchant, category, currency, description and raises one failure,
\* whose field is the earliest invalid field of the candidate in that order.
C21_FailsOnEarliestInvalidField ==
    fn.op = "validateTransaction" => FailsOnEarliest(fn.input, fn.result)

\* the same, for candidates whose earliest invalid field is not a type that
\* is no string
C21_WhenTypeIsString ==
    (/\ fn.op = "validateTransaction"
     /\ \/ InvalidAt(fn.input) = {}
        \/ FieldOrder[Earliest(InvalidAt(fn.input))] # "type"
        \/ IsString(fn.input.type))
    => FailsOnEarliest(fn.input, fn.result)

\* a > 1,000,000,000 and a <= 0 on a number w + f/100
OutOfRange(a) ==
    \/ a.w < 0 \/ (a.w = 0 /\ a.f = 0)
    \/ a.w > 1000000000 \/ (a.w = 1000000000 /\ a.f > 0)

\* C22: validateAmount, and validateTransaction on a candidate that is valid
\* otherwise, reject a number a with a <= 0 or a > 1,000,000,000 by a
\* ValidationError of field 'amount', and accept every other number and
\* return it unchanged; 1,000,000,000 is accepted.
C22_AmountRange ==
    /\ (fn.op = "validateAmount" /\ fn.input.k = "number") =>
          IF OutOfRange(fn.input)
          THEN /\ ~fn.result.ok
               /\ fn.result.err.kind = "ValidationError"
               /\ fn.result.err.field = "amount"
          ELSE fn.result.ok /\ fn.result.v = fn.input
    /\ (fn.op = "validateTransaction" /\ fn.input.amount.k = "number") =>
          IF OutOfRange(fn.input.amount)
          THEN /\ ~fn.result.ok
               /\ fn.result.err.kind = "ValidationError"
               /\ fn.result.err.field = "amount"
          ELSE fn.result.ok => fn.result.v.amount = fn.input.amount

\* validateAmount has accepted 1,000,000,000 and returned it
C22_Witness ==
    /\ fn.op = "validateAmount"
    /\ fn.input = Num(1000000000, 0)
    /\ fn.result.ok
    /\ fn.result.v = Num(1000000000, 0)

\* the rule of validateDate on a date that Date can parse
WithinOneYear(result, day) ==
    IF day > 365
    THEN /\ ~result.ok
         /\ result.err.kind = "ValidationError"
         /\ result.err.field = "date"
    ELSE result.ok /\ result.v = IsoDate(day)

\* C23: validateDate rejects every parseable date more than 365 days after
\* the validation time with a ValidationError of field 'date', also when
\* the year that starts at the validation time has a 29 February; it
\* accepts every parseable date at most 365 days ahead and every past date.
C23_DateWindow ==
    (fn.op = "validateDate" /\ DateValid(fn.input)) =>
        WithinOneYear(fn.result, DateDay(fn.input))

\* the same when the year that starts now has 365 days
C23_InCommonYear ==
    (fn.op = "validateDate" /\ DateValid(fn.input) /\ ~leapWindow) =>
        WithinOneYear(fn.result, DateDay(fn.input))

\* whether a type is 'income' or 'expense' in some case
IsIncomeOrExpense(type) ==
    IsString(type) /\ ~type.ws /\ LowerText(type.s) \in {"income", "expense"}

\* C24: validateTransaction rejects every type it is given (a truthy
\* value) that is not 'income' or 'expense' in some case, a string or not,
\* with a failure whose message includes the received value, and accepts
\* every case variant of the two and returns it in lower case.
C24_TypeRejectedWithReceivedValue ==
    (/\ fn.op = "validateTransaction"
     /\ \A i \in InvalidAt(fn.input) : FieldOrder[i] = "type"
     /\ Truthy(fn.input.type))
    => IF IsIncomeOrExpense(fn.input.type)
       THEN /\ fn.result.ok
            /\ fn.result.v.type.s \in {"income", "expense"}
            /\ fn.result.v.type.s = LowerText(fn.input.type.s)
       ELSE /\ ~fn.result.ok
            /\ fn.result.err.detail = JSString(fn.input.type).s

\* the same for the types that are strings of one character or more
C24_WhenTypeIsNonEmptyString ==
    (/\ fn.op = "validateTransaction"
     /\ \A i \in InvalidAt(fn.input) : FieldOrder[i] = "type"
     /\ IsString(fn.input.type) /\ Truthy(fn.input.type))
    => IF IsIncomeOrExpense(fn.input.type)
       THEN /\ fn.result.ok
            /\ fn.result.v.type.s = LowerText(fn.input.type.s)
       ELSE /\ ~fn.result.ok
            /\ fn.result.err.field = "type"
            /\ fn.result.err.detail = fn.input.type.s

\* the required keys that are absent (undefined or null) in a parsed reply
AbsentKeys(reply) ==
    {field \in {"amount", "date", "merchant", "category", "type"} :
        reply.data[field] \in {Undef, Null}}

\* the completion request was sent and its reply parsed as an object
Parsed1(call) ==
    /\ call.op = "extractTransactionFromText"
    /\ call.requests = 1
    /\ call.reply.t = "content" /\ call.reply.present
    /\ call.reply.valid /\ call.reply.fence = "none"

\* C25: when a non-empty set M of the required keys is absent (undefined or
\* null) in the parsed response, extractTransactionFromText fails with an
\* LLMError whose list of missing fields names every key of M once and no
\* other key, and returns no candidate.
C25_NamesExactlyTheMissingKeys ==
    (Parsed1(fn) /\ AbsentKeys(fn.reply) # {}) =>
        /\ ~fn.result.ok
        /\ fn.result.v = Undef
        /\ fn.result.err.kind = "LLMError"
        /\ {fn.result.err.list[i] : i \in 1..Len(fn.result.err.list)} = AbsentKeys(fn.reply)
        /\ Len(fn.result.err.list) = Cardinality(AbsentKeys(fn.reply))

\* merchant and type are null in the response: both are named
C25_Witness ==
    /\ Parsed1(fn)
    /\ fn.reply.data.merchant = Null
    /\ fn.reply.data.type = Null
    /\ AbsentKeys(fn.reply) = {"merchant", "type"}
    /\ fn.result.err.list = <<"merchant", "type">>

\* whether a text passes as input of the adapter
UsableText(text) == IsString(text) /\ text.len > 0

\* C26: extractTransactionFromText sends no completion request and fails
\* with an LLMError when the text is empty, blank or no string or when
\* OPENAI_API_KEY is not set, and sends exactly one in every other call,
\* whether the call then succeeds or fails.
C26_OneCompletionRequest ==
    fn.op = "extractTransactionFromText" =>
        IF ~UsableText(fn.input) \/ ~apiKey
        THEN /\ fn.requests = 0
             /\ ~fn.result.ok
             /\ fn.result.err.kind = "LLMError"
        ELSE fn.requests = 1

\* a call without an API key has failed with no request sent
C26_Witness ==
    /\ fn.op = "extractTransactionFromText"
    /\ UsableText(fn.input)
    /\ ~apiKey
    /\ fn.requests = 0
    /\ fn.result.err.kind = "LLMError"

\* what the adapter returns for the reply without its code fence
Unwrapped(call) ==
    extractTransactionFromText(call.input, apiKey,
                               [call.reply EXCEPT !.fence = "none"]).result

\* C27: for valid contract JSON in a code fence, with or without a language
\* tag after the opening fence, extractTransactionFromText returns the
\* candidate it returns for the unwrapped JSON and no parse failure.
C27_FencedJsonIsParsed ==
    (/\ fn.op = "extractTransactionFromText"
     /\ fn.requests = 1
     /\ fn.reply.t = "content" /\ fn.reply.present /\ fn.reply.valid
     /\ fn.reply.fence # "none")
    => fn.result.ok /\ fn.result = Unwrapped(fn)

\* the same for a fence without a language tag
C27_PlainFenceIsParsed ==
    (/\ fn.op = "extractTransactionFromText"
     /\ fn.requests = 1
     /\ fn.reply.t = "content" /\ fn.reply.present /\ fn.reply.valid
     /\ fn.reply.fence = "plain")
    => fn.result.ok /\ fn.result = Unwrapped(fn)

\* C28 as stated: a request makes at most one document-recognition call, one
\* completion request, one storage read in the duplicate check and one put.
C28_AtMostOneCallPerStage ==
    \A r \in Slots :
        /\ req[r].calls.ocr <= 1
        /\ req[r].calls.llm <= 1
        /\ req[r].calls.query + req[r].calls.scan <= 1
        /\ req[r].calls.put <= 1

ExternalCalls == {"ocr", "llm", "query", "scan", "put"}

\* the only second call of a stage is the scan that follows a query rejected
\* for its index, and a stage that throws makes no further call
OnlyFallbackFollowsFailure ==
    \A r \in Slots :
        /\ req'[r].calls.scan > req[r].calls.scan =>
              /\ req[r].pc = "query"
              /\ req[r].calls.query = 1
              /\ req'[r].queryError \in QueryErrors
              /\ \/ req'[r].queryError.code = "ResourceNotFoundException"
                 \/ req'[r].queryError.index
        /\ (Failing(req'[r]) /\ ~Failing(req[r])) =>
              \A c \in ExternalCalls : req'[r].calls[c] = req[r].calls[c]
        /\ Failing(req[r]) =>
              \A c \in ExternalCalls : req'[r].calls[c] = req[r].calls[c]

\* C28, amended: a request makes at most one document-recognition call, one
\* completion request, one index query, one fallback scan and one put; the
\* scan is made only after the index query of the same request was rejected
\* with ResourceNotFoundException or a message containing 'index'; no other
\* call follows a failed call.
C28_OneCallPerStageAndOneFallback ==
    /\ [](\A r \in Slots : \A c \in ExternalCalls : req[r].calls[c] <= 1)
    /\ [][OnlyFallbackFollowsFailure]_vars

\* a request whose index query was rejected has scanned, found nothing and
\* written its record
C28_Witness ==
    \E r \in Slots :
        /\ req[r].pc = "done"
        /\ req[r].calls.query = 1
        /\ req[r].calls.scan = 1
        /\ req[r].calls.put = 1

\* whether a lookup for a candidate with amount b, the candidate's data
\* otherwise, matches the candidate's own record stored with amount a
MatchesStored(q, a, b) ==
    checkForDuplicates(<<BuildItem(q.validUserId, [q.lookup EXCEPT !.amount = a], 0, 0)>>,
                       q.validUserId, [q.lookup EXCEPT !.amount = b]) # <<>>

\* C29: for two amounts a and b of the same user, merchant and date, the
\* lookup matches stored a against candidate b exactly if it matches stored
\* b against candidate a: for every record of the candidate's user, merchant
\* and date in the table, the lookup has returned it exactly if a lookup for
\* that record would return the candidate.
C29_DuplicateDecisionSymmetric ==
    \A r \in Slots :
        (Checked(req[r]) /\ req[r].calls.scan = 0) =>
            \A i \in 1..req[r].seen :
                (/\ store[i].userId = req[r].validUserId
                 /\ store[i].merchant = req[r].lookup.merchant
                 /\ store[i].date = req[r].lookup.date)
                => ((\E j \in 1..Len(req[r].dups) : req[r].dups[j] = store[i])
                    <=> MatchesStored(req[r], req[r].lookup.amount, store[i].amount))

ItemFields ==
    {"userId", "transactionId", "timestamp", "amount", "currency", "date",
     "merchant", "category", "type", "description", "source", "rawText",
     "status", "createdAt", "updatedAt"}

\* the keys of the validated data that come from the LLM's object
ExtractedFields ==
    {"amount", "date", "merchant", "category", "type", "currency", "description"}

\* C30: every record a pipeline request wrote has exactly the fields
\* userId, transactionId, timestamp, amount, currency, date, merchant,
\* category, type, description, source, rawText, status, createdAt and
\* updatedAt, with status 'confirmed', createdAt = updatedAt, the trimmed id
\* of the caller as userId and a transactionId no other record has; of the
\* LLM's object only amount, date, merchant, category, type, currency and
\* description reach it, validated, and a userId, transactionId, status,
\* timestamp, createdAt or updatedAt of the LLM's object does not.
C30_StoredRecordShape ==
    \A i \in 1..Len(store) :
        /\ DOMAIN store[i] = ItemFields
        /\ store[i].status = "confirmed"
        /\ store[i].createdAt = store[i].updatedAt
        /\ \A j \in 1..Len(store) :
              store[j].transactionId = store[i].transactionId => j = i
        /\ WrittenBy(store[i]) # {}
        /\ \A r \in WrittenBy(store[i]) :
              LET extracted == req[r].extracted
                  validatedData == validateTransaction(extracted, leapWindow).v
              IN /\ store[i].userId = Trim(req[r].userId)
                 /\ ~store[i].userId.ws
                 /\ store[i].transactionId \in Ids
                 /\ \A field \in ExtractedFields \ {"currency", "description"} :
                       store[i][field] = validatedData[field]
                 /\ store[i].currency = Or(validatedData.currency, Str("USD", 3))
                 /\ store[i].description = Or(validatedData.description, EmptyStr)
                 /\ \A field \in (DOMAIN extracted \cap DOMAIN Unrequested) \cap ItemFields :
                       store[i][field] # extracted[field]

\* a record in the table was written for a caller whose id came with blanks
\* around it, from an LLM object that carried the keys not asked for
C30_Witness ==
    \E r \in Slots :
        /\ req[r].pc = "done"
        /\ req[r].userId = Padded(User1)
        /\ DOMAIN Unrequested \subseteq DOMAIN req[r].extracted
        /\ req[r].extracted.status = "pending"
        /\ \E i \in 1..Len(store) : store[i] = req[r].item /\ store[i].userId = User1

====
